---- MODULE Spec2Model ----
(***************************************************************************)
(* Verification model of the bet / settlement processing pipeline.         *)
(*                                                                         *)
(* Part I   - the queue store (services/backend, redis_bet_repository):    *)
(*            the bet hashes, the claimable and processing sorted sets,    *)
(*            the three Lua scripts and the Rust wrappers around them.     *)
(* Part II  - the settlement workers (services/processor,                  *)
(*            settlement_worker.rs, blockchain_client.rs, main.rs) and the *)
(*            external settlements service they talk to.                   *)
(* Part III - the bet worker (services/processor, worker_pool_original.rs, *)
(*            circuit_breaker.rs) and the queue API it reports to.         *)
(***************************************************************************)
EXTENDS Integers, Sequences, FiniteSets, TLC

(***************************************************************************)
(* Bounds of the model.                                                    *)
(***************************************************************************)
MaxBets == 1
MaxTicks == 1
MaxBatches == 2
MaxInFlight == 1
SmallPopulation == 2
LargePopulation == 502
VersionCap == 2
RetryCap == 7
MaxFaults == 3
MaxFetched == 32
LeadingWins == 25
MaxDispatchFetched == 3
MaxCalls == 12
MaxWaits == 2
MaxReportFaults == 1
MaxPackSize == 3
coordinator_channel_buffer_size == 2

(***************************************************************************)
(* Program constants.                                                      *)
(***************************************************************************)
max_retry_count == 5
retry_backoff_base_ms == 2000
retry_backoff_max_ms == 60000
CLAIM_LIMIT_MAX == 500
MAX_RETRIES == 3
SettlementRetryLimit == 3
SettlementBackoffSeconds == 5
CompletionBackoffCapSeconds == 60
failure_threshold == 5
reset_timeout_seconds == 60
batch_size == 100
max_bets_per_tx == 12
coordinator_batch_min_size == 3
coordinator_batch_max_size == 12

(***************************************************************************)
(* Part I: queue store                                                     *)
(***************************************************************************)
VARIABLES
    bets,        \* bet:<id> hashes: id -> field map (only ids whose hash exists)
    claimable,   \* bets:claimable sorted set: [order, score]
    processing,  \* bets:processing sorted set: member id -> score
    now,         \* wall clock, ms
    ticks,       \* number of clock advances so far
    batches,     \* number of batch uuids generated so far
    calls,       \* per caller: the update_status(FailedRetryable) call in flight
    ret,         \* what the most recently completed call returned
    held         \* ids a claim returned and nothing has put back into claimable

storeVars == <<bets, claimable, processing, now, ticks, batches, calls, ret, held>>

(***************************************************************************)
(* Part II: settlement workers, coordinator, settlements service           *)
(***************************************************************************)
VARIABLES
    svc,                  \* the settlement's record in the settlements service
    wk,                   \* per settlement worker: position, fetched copy, locals
    chan,                 \* per worker: batches waiting in its channel
    next_worker_index,    \* Coordinator::next_worker_index modulo the worker count
    coord,                \* the coordinator: its batch sizes and its cycle's locals
    coordinator_enabled,  \* config.processor.coordinator_enabled
    faults,               \* requests so far that got no answer
    subs,                 \* on-chain submissions performed: the fetched versions
    issued,               \* <<worker, signature>> an on-chain submission returned
    sent,                 \* SettlementComplete updates sent so far
    stopped               \* the shutdown signal has been handled

\* The bet worker's circuit breaker (services/processor, circuit_breaker.rs).
VARIABLES
    cb,                   \* CircuitBreaker and the instant Instant::now() gives
    bw,                   \* the bet worker: its place in process_batch, its locals
    rq                    \* one BlockchainClient call: its attempts and what it returned

betVars == <<cb, bw, rq>>

settleVars == <<svc, wk, chan, next_worker_index, coord, coordinator_enabled, faults,
                subs, issued, sent, stopped, betVars>>

vars == <<storeVars, settleVars>>

Pending == "pending"
Batched == "batched"
SubmittedToSolana == "submitted_to_solana"
ConfirmedOnSolana == "confirmed_on_solana"
Completed == "completed"
FailedRetryable == "failed_retryable"
FailedManualReview == "failed_manual_review"

BetStatus == {Pending, Batched, SubmittedToSolana, ConfirmedOnSolana,
              Completed, FailedRetryable, FailedManualReview}

\* The uuids callers name in the general workload.  An id is either allocated
\* by Create, or first named by a status update, which then writes a hash
\* that Create never wrote.
BetIds == 1..MaxBets
Callers == {"w1", "w2"}
Limits == {-1, 0, 1, 600}
\* Target statuses of the CAS calls of the workload; the script treats every
\* status alike.
CasStatuses == {Batched, Completed}
\* Clock advances: past every backoff (general workload); by one millisecond
\* or past every backoff (claim workload).
TickSteps == {60000}
ClaimTickSteps == {1, 60000}

Min(a, b) == IF a < b THEN a ELSE b
Max(a, b) == IF a > b THEN a ELSE b

RECURSIVE Pow2(_)
Pow2(n) == IF n <= 0 THEN 1 ELSE 2 * Pow2(n - 1)

\* Variant: the delay grows linearly.
compute_backoff_ms_linear(retry_count_after_increment) ==
    Min(retry_backoff_base_ms * Max(retry_count_after_increment, 1),
        retry_backoff_max_ms)

\* retry.rs: base * 2^(n-1), capped at max; n is clamped to at least 1.
compute_backoff_ms(retry_count_after_increment) ==
    LET n == Max(retry_count_after_increment, 1)
        factor == Pow2(n - 1)
    IN  Min(retry_backoff_base_ms * factor, retry_backoff_max_ms)

(***************************************************************************)
(* The claimable sorted set: its members in the order ZRANGEBYSCORE reads  *)
(* them (by score, ties by member) and the score of each member.  The      *)
(* processing set is never range-queried by the repository, so it is a     *)
(* plain member -> score map.                                              *)
(***************************************************************************)
EmptyZ == [order |-> << >>, score |-> << >>]
MapAdd(z, id, score) == [m \in (DOMAIN z) \cup {id} |-> IF m = id THEN score ELSE z[m]]
MapRem(z, id) == [m \in (DOMAIN z) \ {id} |-> z[m]]
Range(seq) == {seq[i] : i \in 1..Len(seq)}
ZMembers(z) == DOMAIN z.score
ZBefore(s1, m1, s2, m2) == s1 < s2 \/ (s1 = s2 /\ m1 < m2)
ZRem(z, id) ==
    IF id \notin DOMAIN z.score THEN z
    ELSE [order |-> SelectSeq(z.order, LAMBDA m : m # id),
          score |-> MapRem(z.score, id)]
ZAdd(z, id, score) ==
    LET r == ZRem(z, id)
        k == Cardinality({i \in 1..Len(r.order) :
                            ZBefore(r.score[r.order[i]], r.order[i], score, id)})
    IN  [order |-> SubSeq(r.order, 1, k) \o <<id>> \o SubSeq(r.order, k + 1, Len(r.order)),
         score |-> MapAdd(r.score, id, score)]

\* Hash helpers: HGET of a missing key or field yields nil, read as the default.
EmptyHash == [created |-> FALSE, status |-> "", retry_count |-> 0, version |-> 0,
              external_batch_id |-> 0, processor_id |-> "", next_attempt_at_ms |-> 0,
              won |-> "nil"]
HashOf(b, id) == IF id \in DOMAIN b THEN b[id] ELSE EmptyHash
Hash(id) == HashOf(bets, id)
HSet(id, h) == [m \in (DOMAIN bets) \cup {id} |-> IF m = id THEN h ELSE bets[m]]

Idle == [pc |-> "idle", id |-> 0, now_ms |-> 0, current_retry |-> 0, backoff_ms |-> 0]
\* Ok(()) of create and update_status; Ok(bool) of update_status_with_version;
\* Ok((batch_id, bets)) or Err of claim_pending.
Unit == [op |-> "", ok |-> TRUE, ids |-> <<>>, batch_id |-> 0]

(***************************************************************************)
(* Settlement records, fetched copies and worker locals.                   *)
(***************************************************************************)
Workers == {1, 2}
NoSig == 0       \* solana_tx_id: None
PriorSig == 1    \* a solana_tx_id the service already holds for the settlement
None == -1       \* retry_count / next_retry_after: None
CarriedVersion == 4  \* version of a settlement stored with a signature

SvcPending == "Pending"
SvcSubmittedToSolana == "SubmittedToSolana"
SettlementComplete == "SettlementComplete"
SettlementFailed == "SettlementFailed"
SettlementFailedPermanent == "SettlementFailedPermanent"

\* The settlement as the service first surfaces it.
NewSettlement(sig) ==
    [status |-> SvcPending, version |-> 0, solana_tx_id |-> sig,
     retry_count |-> 0, next_retry_after |-> 0, outcome |-> "Win"]

\* GameSettlementInfo: the fields the worker reads.
GameOf(s) ==
    [version |-> s.version, solana_tx_id |-> s.solana_tx_id,
     retry_count |-> s.retry_count, outcome |-> s.outcome]
NoGame == [version |-> 0, solana_tx_id |-> NoSig, retry_count |-> 0, outcome |-> ""]

\* The coordinator between cycles, with its configured batch sizes.
CoordinatorWith(min_size, max_size) ==
    [batch_min_size |-> min_size, batch_max_size |-> max_size,
     fetched |-> << >>, wins |-> << >>, losses |-> << >>, outbox |-> << >>]

\* CircuitBreaker::new(5, 60) at instant 0.  streak, calls, waits and last
\* record the calls made: the failures since the last success, the longest
\* run of failures a success has ended, the number of calls and of waits, and
\* what the last call returned.  task holds, for each of two tasks that share
\* the breaker, the place of its call in flight, the local `failures` of
\* on_failure, the state the call was admitted in, the state its operation
\* returned in and what its last call returned.
NewBreaker ==
    [state |-> "Closed", failure_count |-> 0, last_failure_time |-> None,
     clock |-> 0, streak |-> 0, cleared |-> 0, calls |-> 0, waits |-> 0,
     last |-> "none",
     task |-> [t \in {1, 2} |->
                 [pc |-> "idle", failures |-> 0, admitted |-> "none",
                  result_in |-> "none", returned |-> "none"]]]

\* A bet worker between two ticks, with config.processor.max_bets_per_tx as
\* configured.  faults counts the requests of the worker that failed; executed
\* holds the bets whose on-chain submission succeeded.
IdleBetWorker ==
    [pc |-> "tick", max_per_tx |-> max_bets_per_tx, batch_id |-> 0,
     chunks |-> << >>, signature |-> NoSig, results |-> << >>, report |-> << >>,
     faults |-> 0, executed |-> {}]

IdleWorker ==
    [pc |-> "idle", game |-> NoGame, todo |-> << >>, attempt |-> 1,
     sig |-> NoSig, expected |-> 0, backoff_seconds |-> 1,
     next_retry_after |-> None, src |-> "none", aborted |-> FALSE,
     returned |-> "none"]

\* No call of the settlements client has been made: op is the operation
\* ("fetch" / "update"), attempt the number of the attempt in flight, waits
\* the backoff sleeps so far in ms, last the response of the last attempt.
NoRequest ==
    [op |-> "none", attempt |-> 0, waits |-> << >>,
     last |-> [status |-> 0, body |-> ""], returned |-> "none"]

\* The processor is not running: nothing fetched, sent or submitted.
ProcessorOff ==
    /\ svc = NewSettlement(NoSig)
    /\ wk = [w \in Workers |-> IdleWorker]
    /\ cb = NewBreaker
    /\ bw = IdleBetWorker
    /\ rq = NoRequest
    /\ chan = [w \in Workers |-> << >>]
    /\ next_worker_index = 0
    /\ coord = CoordinatorWith(coordinator_batch_min_size, coordinator_batch_max_size)
    /\ coordinator_enabled = TRUE
    /\ faults = 0
    /\ subs = << >>
    /\ issued = {}
    /\ sent = {}
    /\ stopped = FALSE

StoreInit ==
    /\ bets = << >>
    /\ claimable = EmptyZ
    /\ processing = << >>
    /\ now = 0
    /\ ticks = 0
    /\ batches = 0
    /\ calls = [c \in Callers |-> Idle]
    /\ ret = Unit
    /\ held = {}

\* RedisBetRepository::create: a fresh uuid and one atomic pipeline.
Create(id) ==
    /\ id \notin DOMAIN bets
    /\ \A c \in Callers : calls[c].pc = "idle" \/ calls[c].id # id
    /\ bets' = HSet(id, [EmptyHash EXCEPT !.created = TRUE, !.status = Pending])
    /\ claimable' = ZAdd(claimable, id, now)
    /\ ret' = Unit
    /\ held' = held \ {id}
    /\ UNCHANGED <<processing, now, ticks, batches, calls>>

\* claim_pending line 175: limit.max(0).min(500)
ClampLimit(limit) == Min(Max(limit, 0), CLAIM_LIMIT_MAX)

\* Variant: ZRANGE claimable 0 limit-1, which ignores the scores.
ZRange_anyScore(z, now_ms, limit) == SubSeq(z.order, 1, Min(limit, Len(z.order)))

\* CLAIM_PENDING_SCRIPT line 20:
\* ZRANGEBYSCORE claimable -inf now_ms WITHSCORES LIMIT 0 limit
DueCount(z, now_ms) ==
    Cardinality({i \in 1..Len(z.order) : z.score[z.order[i]] <= now_ms})
ZRangeByScoreLimit(z, now_ms, limit) ==
    SubSeq(z.order, 1, Min(limit, DueCount(z, now_ms)))

\* Variant: the script forgets the ZREM and leaves the entries in claimable.
ClaimZRem_kept(z, entries) == z

\* CLAIM_PENDING_SCRIPT line 26: ZREM claimable bet_id, for every entry read.
\* The entries read are a prefix of the set.
ClaimZRem(z, entries) ==
    LET ids == Range(entries)
    IN  [order |-> SubSeq(z.order, Len(entries) + 1, Len(z.order)),
         score |-> [m \in (DOMAIN z.score) \ ids |-> z.score[m]]]

\* CLAIM_PENDING_SCRIPT line 27: ZADD processing score bet_id, for every
\* entry, with the score the entry had in claimable.
ClaimZAdd(p, z, entries) ==
    LET ids == Range(entries)
    IN  [m \in (DOMAIN p) \cup ids |-> IF m \in ids THEN z.score[m] ELSE p[m]]

\* load_bet_from_hash: None for an empty map, an Internal error when
\* created_at_ms is missing, the bet otherwise.
LoadFails(h) == ~h.created

\* claim_pending: the limit clamp, a fresh batch uuid, now_ms,
\* CLAIM_PENDING_SCRIPT (atomic in the store), and the load of every claimed
\* id.  A hash, once written, is never deleted and never gains created_at_ms,
\* so what the load returns is fixed when the script has run.
claim_pending(c, limit_arg) ==
    LET limit == ClampLimit(limit_arg)
        batch_id == batches + 1
        entries == ZRangeByScoreLimit(claimable, now, limit)
        ids == Range(entries)
        err == \E m \in ids : LoadFails(Hash(m))
    IN  /\ claimable' = ClaimZRem(claimable, entries)
        /\ processing' = ClaimZAdd(processing, claimable, entries)
        /\ bets' = [m \in (DOMAIN bets) \cup ids |->
                       IF m \in ids
                       THEN [Hash(m) EXCEPT !.status = Batched,
                                            !.external_batch_id = batch_id,
                                            !.processor_id = c]
                       ELSE bets[m]]
        /\ batches' = batch_id
        /\ ret' = [op |-> "claim", ok |-> ~err,
                    ids |-> IF err THEN <<>> ELSE entries,
                    batch_id |-> IF err THEN 0 ELSE batch_id]
        /\ held' = IF err THEN held ELSE held \cup ids
        /\ UNCHANGED <<now, ticks, calls>>

\* Variant: the Pending arm forgets the ZREM on processing.
StatusProcessing_noRem(p, id, status, now_ms) ==
    IF status = Batched THEN MapAdd(p, id, now_ms)
    ELSE IF status = Pending THEN p ELSE MapRem(p, id)

\* update_status lines 255-270: the index moves of the pipeline.
StatusClaimable(z, id, status, now_ms) ==
    IF status \in {FailedRetryable, Pending} THEN ZAdd(z, id, now_ms) ELSE ZRem(z, id)
StatusProcessing(p, id, status, now_ms) ==
    IF status = Batched THEN MapAdd(p, id, now_ms) ELSE MapRem(p, id)

\* update_status for every status but FailedRetryable: one atomic pipeline.
UpdateStatus(id, status) ==
    /\ status \in BetStatus \ {FailedRetryable}
    /\ bets' = HSet(id, [Hash(id) EXCEPT !.status = status])
    /\ claimable' = StatusClaimable(claimable, id, status, now)
    /\ processing' = StatusProcessing(processing, id, status, now)
    /\ ret' = Unit
    /\ held' = IF status = Pending THEN held \ {id} ELSE held
    /\ UNCHANGED <<now, ticks, batches, calls>>

\* update_status(FailedRetryable), lines 209-220: now_ms, the HGET of
\* retry_count and the backoff computed from it.
FailRead(c, id) ==
    /\ calls[c].pc = "idle"
    /\ calls' = [calls EXCEPT ![c] =
           [pc |-> "fail_script", id |-> id, now_ms |-> now,
            current_retry |-> Hash(id).retry_count,
            backoff_ms |-> compute_backoff_ms(Hash(id).retry_count + 1)]]
    /\ UNCHANGED <<bets, claimable, processing, now, ticks, batches, ret, held>>

\* Variant: the budget test is off by one.
FailEscalates_late(new_retry, max_retries) == new_retry > max_retries + 1

\* FAIL_RETRYABLE_SCRIPT line 65: the retry budget is exceeded.
FailEscalates(new_retry, max_retries) == new_retry > max_retries

\* Variant: the count stops at the first value beyond the budget.
NewRetry_capped(current_retry) == Min(current_retry + 1, max_retry_count + 1)

\* FAIL_RETRYABLE_SCRIPT line 57: new_retry = current_retry + 1
NewRetry(current_retry) == current_retry + 1

\* update_status(FailedRetryable), lines 222-234: FAIL_RETRYABLE_SCRIPT
\* (atomic in the store) with the arguments computed before.
FailScript(c) ==
    /\ calls[c].pc = "fail_script"
    /\ LET bet_id == calls[c].id
           current_retry == Hash(bet_id).retry_count
           new_retry == NewRetry(current_retry)
           next_attempt_at == calls[c].now_ms + calls[c].backoff_ms
       IN  /\ IF FailEscalates(new_retry, max_retry_count)
              THEN /\ bets' = HSet(bet_id, [Hash(bet_id) EXCEPT
                                      !.retry_count = new_retry,
                                      !.status = FailedManualReview])
                   /\ claimable' = ZRem(claimable, bet_id)
                   /\ processing' = MapRem(processing, bet_id)
                   /\ held' = held
              ELSE /\ bets' = HSet(bet_id, [Hash(bet_id) EXCEPT
                                      !.retry_count = new_retry,
                                      !.status = FailedRetryable,
                                      !.next_attempt_at_ms = next_attempt_at])
                   /\ claimable' = ZAdd(claimable, bet_id, next_attempt_at)
                   /\ processing' = MapRem(processing, bet_id)
                   /\ held' = held \ {bet_id}
           /\ ret' = Unit
    /\ calls' = [calls EXCEPT ![c] = Idle]
    /\ UNCHANGED <<now, ticks, batches>>

\* Variant: the script forgets the version test.
CasMismatch_never(current, expected) == FALSE

\* CAS_UPDATE_SCRIPT line 99: current ~= expected
CasMismatch(current, expected) == current # expected

\* update_status_with_version: CAS_UPDATE_SCRIPT (atomic in the store).
UpdateStatusCAS(id, expected, new_status) ==
    /\ IF CasMismatch(Hash(id).version, expected)
       THEN /\ ret' = [Unit EXCEPT !.op = "cas", !.ok = FALSE]
            /\ UNCHANGED bets
       ELSE /\ bets' = HSet(id, [Hash(id) EXCEPT !.status = new_status,
                                                 !.version = @ + 1])
            /\ ret' = [Unit EXCEPT !.op = "cas", !.ok = TRUE]
    /\ UNCHANGED <<claimable, processing, now, ticks, batches, calls, held>>

Tick(d) ==
    /\ now' = now + d
    /\ ticks' = ticks + 1
    /\ UNCHANGED <<bets, claimable, processing, batches, calls, ret, held>>

InFlight == Cardinality({c \in Callers : calls[c].pc # "idle"})

\* The general workload: every operation, on every id, by any caller.
Next ==
    \/ \E id \in BetIds : Create(id) /\ UNCHANGED settleVars
    \/ \E c \in Callers, limit \in Limits :
          batches < MaxBatches /\ claim_pending(c, limit) /\ UNCHANGED settleVars
    \/ \E id \in BetIds, status \in BetStatus :
          UpdateStatus(id, status) /\ UNCHANGED settleVars
    \/ \E c \in Callers, id \in BetIds :
          InFlight < MaxInFlight /\ FailRead(c, id) /\ UNCHANGED settleVars
    \/ \E c \in Callers :
          /\ Hash(calls[c].id).retry_count < RetryCap
          /\ FailScript(c) /\ UNCHANGED settleVars
    \/ \E id \in BetIds, v \in 0..VersionCap, s \in CasStatuses :
          /\ Hash(id).version = v => v < VersionCap
          /\ UpdateStatusCAS(id, v, s) /\ UNCHANGED settleVars
    \/ \E d \in TickSteps : ticks < MaxTicks /\ Tick(d) /\ UNCHANGED settleVars

Init == StoreInit /\ ProcessorOff

Spec == Init /\ [][Next]_vars

(***************************************************************************)
(* The claim workload: a store that already holds n bets created at        *)
(* instant 0 and still pending, and (when n > 0) one more bet whose first  *)
(* failure at instant 0 rescheduled it to instant 2000; then one more      *)
(* Create, claims with limits around the clamp, and clock advances.        *)
(***************************************************************************)
Populations == {0, SmallPopulation, LargePopulation}
ClaimLimits == {-1, 1, 2, 600}
ClaimNewIds == {0}

PendingBet == [EmptyHash EXCEPT !.created = TRUE, !.status = Pending]
RescheduledBet ==
    [EmptyHash EXCEPT !.created = TRUE, !.status = FailedRetryable,
                      !.retry_count = 1,
                      !.next_attempt_at_ms = compute_backoff_ms(1)]

Populated(n) ==
    IF n = 0 THEN StoreInit
    ELSE /\ bets = [m \in 1..(n + 1) |-> IF m <= n THEN PendingBet ELSE RescheduledBet]
         /\ claimable = [order |-> [i \in 1..(n + 1) |-> i],
                         score |-> [m \in 1..(n + 1) |->
                                       IF m <= n THEN 0 ELSE compute_backoff_ms(1)]]
         /\ processing = << >>
         /\ now = 0
         /\ ticks = 0
         /\ batches = 0
         /\ calls = [c \in Callers |-> Idle]
         /\ ret = Unit
         /\ held = {}

ClaimInit == ProcessorOff /\ \E n \in Populations : Populated(n)

ClaimNext ==
    \/ \E id \in ClaimNewIds : Create(id) /\ UNCHANGED settleVars
    \/ \E c \in Callers, limit \in ClaimLimits :
          batches < MaxBatches /\ claim_pending(c, limit) /\ UNCHANGED settleVars
    \/ \E d \in ClaimTickSteps : ticks < MaxTicks /\ Tick(d) /\ UNCHANGED settleVars

ClaimSpec == ClaimInit /\ [][ClaimNext]_vars

(***************************************************************************)
(* The failure workload: one bet that has failed r times before and is     *)
(* claimed again at the instant its last backoff ran out; both callers     *)
(* report failures for it, and their calls may overlap.                    *)
(***************************************************************************)
PriorFailures == 0..max_retry_count
FailedBetId == 1

ClaimedAfter(r) ==
    LET at == IF r = 0 THEN 0 ELSE compute_backoff_ms(r)
    IN  /\ bets = MapAdd(<< >>, FailedBetId,
                    [EmptyHash EXCEPT !.created = TRUE, !.status = Batched,
                                      !.retry_count = r,
                                      !.external_batch_id = 1,
                                      !.processor_id = "w1",
                                      !.next_attempt_at_ms = at])
        /\ claimable = EmptyZ
        /\ processing = MapAdd(<< >>, FailedBetId, at)
        /\ now = at
        /\ ticks = 0
        /\ batches = 1
        /\ calls = [c \in Callers |-> Idle]
        /\ ret = Unit
        /\ held = {FailedBetId}

FailInit == ProcessorOff /\ \E r \in PriorFailures : ClaimedAfter(r)

FailNext ==
    \/ \E c \in Callers : FailRead(c, FailedBetId) /\ UNCHANGED settleVars
    \/ \E c \in Callers :
          /\ Hash(calls[c].id).retry_count < RetryCap
          /\ FailScript(c) /\ UNCHANGED settleVars
    \/ \E c \in Callers :
          batches < MaxBatches /\ claim_pending(c, 1) /\ UNCHANGED settleVars
    \/ \E d \in ClaimTickSteps : ticks < MaxTicks /\ Tick(d) /\ UNCHANGED settleVars

FailSpec == FailInit /\ [][FailNext]_vars

(***************************************************************************)
(* The settlements service: the list of pending settlements and the update *)
(* with an expected version.                                               *)
(***************************************************************************)
FetchPending(s, now_ms) ==
    IF \/ s.status = SvcPending
       \/ s.status = SettlementFailed /\ s.next_retry_after <= now_ms
    THEN <<GameOf(s)>>
    ELSE << >>

SvcAccepts(s, req) == s.version = req.expected_version

SvcApply(s, req) ==
    IF SvcAccepts(s, req)
    THEN [status |-> req.status,
          version |-> s.version + 1,
          solana_tx_id |->
              IF req.solana_tx_id # NoSig THEN req.solana_tx_id ELSE s.solana_tx_id,
          retry_count |->
              IF req.retry_count # None THEN req.retry_count ELSE s.retry_count,
          next_retry_after |->
              IF req.next_retry_after # None THEN req.next_retry_after
              ELSE s.next_retry_after,
          outcome |-> s.outcome]
    ELSE s

(***************************************************************************)
(* BlockchainClient: one attempt of a request is answered, or its answer   *)
(* is lost after the service handled it, or it never reaches the service.  *)
(***************************************************************************)
Outcomes == {"answered", "lost", "unsent"}

UpdateSettlementRequest(status, sig, expected_version, retry_count, next_retry_after) ==
    [status |-> status, solana_tx_id |-> sig, expected_version |-> expected_version,
     retry_count |-> retry_count, next_retry_after |-> next_retry_after]

\* Variant: the client never gives up on an unanswered request.
update_settlement_status_persistent(outcome, accepted, attempt) ==
    IF outcome = "answered"
    THEN (IF accepted THEN "ok" ELSE "conflict")
    ELSE "retry"

\* update_settlement_status: what one attempt gives the caller.
\* "ok" and "conflict" return at once, "error" returns after the last
\* attempt, "retry" sleeps and sends the request again.
update_settlement_status(outcome, accepted, attempt) ==
    IF outcome = "answered"
    THEN (IF accepted THEN "ok" ELSE "conflict")
    ELSE (IF attempt >= MAX_RETRIES THEN "error" ELSE "retry")

\* The request's effect on the service and on the count of unanswered requests.
Exchange(req, outcome) ==
    /\ svc' = IF outcome = "unsent" THEN svc ELSE SvcApply(svc, req)
    /\ faults' = IF outcome = "answered" THEN faults ELSE faults + 1

(***************************************************************************)
(* SettlementWorker                                                        *)
(***************************************************************************)
\* Variant: every settlement starts with the SubmittedToSolana update.
Begin_submitsFirst(g, rest) ==
    [IdleWorker EXCEPT !.pc = "submitted", !.game = g, !.todo = rest]

\* process_settlement, entry: a copy that already carries a signature goes
\* straight to the completion update with the fetched version.
Begin(g, rest) ==
    IF g.solana_tx_id # NoSig
    THEN [IdleWorker EXCEPT !.pc = "complete", !.game = g, !.todo = rest,
                            !.sig = g.solana_tx_id, !.expected = g.version,
                            !.src = "fetched"]
    ELSE [IdleWorker EXCEPT !.pc = "submitted", !.game = g, !.todo = rest]

\* process_settlement returned Ok or Err: the next settlement of the batch,
\* or idle.  returned and backoff_seconds keep what the call returned and the
\* last backoff of its completion loop until the next settlement begins.
Finish(r, result) ==
    IF r.todo = << >>
    THEN [IdleWorker EXCEPT !.returned = result, !.backoff_seconds = r.backoff_seconds]
    ELSE Begin(Head(r.todo), Tail(r.todo))

Running(w) == ~stopped /\ ~wk[w].aborted

\* run_with_coordinator: receiver.recv() and process_settlement_batch.
Receive(w) ==
    /\ coordinator_enabled /\ Running(w)
    /\ wk[w].pc = "idle"
    /\ chan[w] # << >>
    /\ LET batch == Head(chan[w])
       IN  wk' = [wk EXCEPT ![w] = Begin(Head(batch.settlements),
                                         Tail(batch.settlements))]
    /\ chan' = [chan EXCEPT ![w] = Tail(@)]
    /\ UNCHANGED <<svc, next_worker_index, coord, coordinator_enabled, faults, subs,
                   issued, sent, stopped, betVars, storeVars>>

\* run_legacy / process_batch: the worker fetches the pending list itself.
Poll(w, outcome) ==
    /\ ~coordinator_enabled /\ Running(w)
    /\ wk[w].pc = "idle"
    /\ LET games == FetchPending(svc, now)
       IN  wk' = IF outcome = "answered" /\ games # << >>
                 THEN [wk EXCEPT ![w] = Begin(Head(games), Tail(games))]
                 ELSE wk
    /\ faults' = IF outcome = "answered" THEN faults ELSE faults + 1
    /\ UNCHANGED <<svc, chan, next_worker_index, coord, coordinator_enabled, subs,
                   issued, sent, stopped, betVars, storeVars>>

\* Variant: a settlement with an unknown outcome is taken for a Win.
group_by_outcome_lenient(settlements, outcome) ==
    SelectSeq(settlements,
              LAMBDA g : \/ g.outcome = outcome
                         \/ outcome = "Win" /\ g.outcome \notin {"Win", "Loss"})

\* group_by_outcome: the Win and the Loss settlements, each list in fetch
\* order; any other outcome is skipped.
group_by_outcome(settlements, outcome) ==
    SelectSeq(settlements, LAMBDA g : g.outcome = outcome)

\* create_batches, lines 187-200: the loop closes a batch whenever the
\* current one has reached max_size.
RECURSIVE PackLoop(_, _, _, _)
PackLoop(settlements, max_size, done, current_batch) ==
    IF settlements = << >>
    THEN [batches |-> done, current_batch |-> current_batch]
    ELSE LET pushed == Append(current_batch, Head(settlements))
         IN  IF Len(pushed) >= max_size
             THEN PackLoop(Tail(settlements), max_size, Append(done, pushed), << >>)
             ELSE PackLoop(Tail(settlements), max_size, done, pushed)

\* Variant: a remainder below min_size is dropped.
PackRemainder_dropped(done, current_batch, min_size) ==
    IF current_batch = << >> THEN done
    ELSE IF Len(current_batch) >= min_size \/ done = << >>
         THEN Append(done, current_batch)
         ELSE done

\* Variant: the remainder always becomes a batch of its own.
PackRemainder_ownBatch(done, current_batch, min_size) ==
    IF current_batch = << >> THEN done ELSE Append(done, current_batch)

\* create_batches, lines 202-223: the remainder becomes a batch when it has
\* min_size settlements or is the only batch, and is appended to the last
\* batch otherwise.
PackRemainder(done, current_batch, min_size) ==
    IF current_batch = << >> THEN done
    ELSE IF Len(current_batch) >= min_size \/ done = << >>
         THEN Append(done, current_batch)
         ELSE [done EXCEPT ![Len(done)] = @ \o current_batch]

\* create_batches: the batches in emission order.
create_batches(settlements, batch_type, min_size, max_size) ==
    IF settlements = << >> THEN << >>
    ELSE LET loop == PackLoop(settlements, max_size, << >>, << >>)
             lists == PackRemainder(loop.batches, loop.current_batch, min_size)
         IN  [i \in 1..Len(lists) |->
                 [batch_type |-> batch_type, settlements |-> lists[i]]]

\* process_cycle, lines 85-113: group the fetched settlements and make the
\* batches, Payout batches before Spend batches.
Packed(c, settlements) ==
    LET wins == group_by_outcome(settlements, "Win")
        losses == group_by_outcome(settlements, "Loss")
    IN  [c EXCEPT !.fetched = settlements, !.wins = wins, !.losses = losses,
                  !.outbox = create_batches(wins, "Payout", c.batch_min_size,
                                            c.batch_max_size)
                          \o create_batches(losses, "Spend", c.batch_min_size,
                                            c.batch_max_size)]

\* Coordinator::process_cycle up to its first send: fetch, group, batch.  A
\* failed fetch ends the cycle.
process_cycle(outcome) ==
    /\ coordinator_enabled /\ ~stopped
    /\ coord.outbox = << >>
    /\ coord' = IF outcome = "answered" THEN Packed(coord, FetchPending(svc, now))
                ELSE coord
    /\ faults' = IF outcome = "answered" THEN faults ELSE faults + 1
    /\ UNCHANGED <<svc, wk, chan, next_worker_index, coordinator_enabled, subs,
                   issued, sent, stopped, betVars, storeVars>>

\* Variant: the index is not advanced.
NextIndex_stuck(index) == index

\* send_to_worker, lines 238-239: fetch_add(1) on the index, taken modulo
\* the number of workers.
NextIndex(index) == (index + 1) % Cardinality(Workers)

\* Variant: the send never waits.
ChannelHasRoom_always(queue) == TRUE

\* tokio mpsc channel of coordinator_channel_buffer_size (main.rs line 119):
\* send completes only while the channel holds fewer batches than that.
ChannelHasRoom(queue) == Len(queue) < coordinator_channel_buffer_size

\* send_to_worker: the next batch of the cycle goes to the worker the
\* round-robin index names; the send waits while that channel is full.
send_to_worker ==
    /\ coordinator_enabled /\ ~stopped
    /\ coord.outbox # << >>
    /\ LET w == next_worker_index + 1
       IN  /\ ChannelHasRoom(chan[w])
           /\ chan' = [chan EXCEPT ![w] = Append(@, Head(coord.outbox))]
    /\ next_worker_index' = NextIndex(next_worker_index)
    /\ coord' = [coord EXCEPT !.outbox = Tail(@)]
    /\ UNCHANGED <<svc, wk, coordinator_enabled, faults, subs, issued, sent,
                   stopped, betVars, storeVars>>

\* Variant: the worker goes on to the chain after a version conflict too.
SubmittedProceeds_onConflict(result) == result \in {"ok", "conflict"}

\* process_settlement, lines 236-238 against 239-254: only Ok(_) falls
\* through to the on-chain step.
SubmittedProceeds(result) == result = "ok"

\* Variant: a version conflict is returned as an error.
SubmittedReturn_err(result) == "Err"

\* process_settlement, lines 239-254: a version conflict returns Ok(()), any
\* other error returns Err.
SubmittedReturn(result) == IF result = "conflict" THEN "Ok" ELSE "Err"

\* process_settlement, lines 224-255: the SubmittedToSolana update with the
\* fetched version.
Submitted(w, outcome) ==
    /\ Running(w)
    /\ wk[w].pc = "submitted"
    /\ LET r == wk[w]
           req == UpdateSettlementRequest(SvcSubmittedToSolana, NoSig,
                                          r.game.version, None, None)
           result == update_settlement_status(outcome, SvcAccepts(svc, req), r.attempt)
       IN  /\ Exchange(req, outcome)
           /\ wk' = [wk EXCEPT ![w] =
                        IF result = "retry" THEN [r EXCEPT !.attempt = @ + 1]
                        ELSE IF SubmittedProceeds(result)
                             THEN [r EXCEPT !.pc = "solana", !.attempt = 1]
                             ELSE Finish(r, SubmittedReturn(result))]
    /\ UNCHANGED <<chan, next_worker_index, coord, coordinator_enabled, subs, issued,
                   sent, stopped, betVars, storeVars>>

\* Variant: the worker enters the completion update whatever the chain said.
AfterSubmission_always(outcome) == "complete"

\* process_settlement, lines 258-260: Ok(sig) goes on to the completion
\* update, Err(e) to the failure update.
AfterSubmission(outcome) == IF outcome = "signature" THEN "complete" ELSE "failed"

SubmissionOutcomes == {"signature", "error"}

\* Variant: a failed settlement always stays retryable.
FailureStatus_retryable(new_retry_count) == SettlementFailed

\* process_settlement, lines 270-273: the status the failure update reports.
FailureStatus(new_retry_count) ==
    IF new_retry_count >= SettlementRetryLimit
    THEN SettlementFailedPermanent ELSE SettlementFailed

\* Variant: the backoff does not grow with the retry count.
NextRetryAfter_flat(now_ms, new_retry_count) ==
    IF new_retry_count >= SettlementRetryLimit THEN None
    ELSE now_ms + SettlementBackoffSeconds * 1000

\* process_settlement, lines 270-283: no next_retry_after for a permanent
\* failure, else now_ms + new_retry_count * 5 seconds.
NextRetryAfter(now_ms, new_retry_count) ==
    IF new_retry_count >= SettlementRetryLimit THEN None
    ELSE now_ms + new_retry_count * SettlementBackoffSeconds * 1000

\* process_settlement, lines 258-283: settle_on_solana, and on failure the
\* retry arithmetic.
Solana(w, outcome) ==
    /\ Running(w)
    /\ wk[w].pc = "solana"
    /\ LET r == wk[w]
           v == r.game.version
           sig == IF outcome = "signature" THEN PriorSig + 1 + Len(subs) ELSE NoSig
           new_retry_count == r.game.retry_count + 1
       IN  /\ subs' = Append(subs, v)
           /\ issued' = IF outcome = "signature" THEN issued \cup {<<w, sig>>}
                        ELSE issued
           /\ wk' = [wk EXCEPT ![w] =
                        IF AfterSubmission(outcome) = "complete"
                        THEN [r EXCEPT !.pc = "complete", !.attempt = 1,
                                       !.sig = sig, !.expected = v + 1,
                                       !.src = IF outcome = "signature"
                                               THEN "chain" ELSE "failed"]
                        ELSE [r EXCEPT !.pc = "failed", !.attempt = 1,
                                       !.src = "failed",
                                       !.next_retry_after =
                                           NextRetryAfter(now, new_retry_count)]]
    /\ UNCHANGED <<svc, chan, next_worker_index, coord, coordinator_enabled, faults,
                   sent, stopped, betVars, storeVars>>

\* process_settlement, lines 295-316: the SettlementFailed or
\* SettlementFailedPermanent update; whatever it returns, the worker is done
\* with the settlement.
Failed(w, outcome) ==
    /\ Running(w)
    /\ wk[w].pc = "failed"
    /\ LET r == wk[w]
           new_retry_count == r.game.retry_count + 1
           status == FailureStatus(new_retry_count)
           req == UpdateSettlementRequest(status, NoSig, r.game.version + 1,
                                          new_retry_count, r.next_retry_after)
           result == update_settlement_status(outcome, SvcAccepts(svc, req), r.attempt)
       IN  /\ Exchange(req, outcome)
           /\ wk' = [wk EXCEPT ![w] =
                        IF result = "retry" THEN [r EXCEPT !.attempt = @ + 1]
                        ELSE Finish(r, "Err")]
    /\ UNCHANGED <<chan, next_worker_index, coord, coordinator_enabled, subs, issued,
                   sent, stopped, betVars, storeVars>>

\* Variant: a version conflict does not end the loop.
CompleteDone_okOnly(result) == result = "ok"

\* Variant: the loop returns after any answer or error.
CompleteDone_always(result) == result # "retry"

\* update_settlement_complete_with_retry, lines 371-402: Ok and a version
\* conflict end the loop.
CompleteDone(result) == result \in {"ok", "conflict"}

\* update_settlement_complete_with_retry, lines 359-416: one attempt of the
\* SettlementComplete update.
Complete(w, outcome) ==
    /\ Running(w)
    /\ wk[w].pc = "complete"
    /\ LET r == wk[w]
           req == UpdateSettlementRequest(SettlementComplete, r.sig, r.expected,
                                          None, None)
           result == update_settlement_status(outcome, SvcAccepts(svc, req), r.attempt)
       IN  /\ Exchange(req, outcome)
           /\ sent' = sent \cup {[w |-> w, sig |-> r.sig, src |-> r.src,
                                  carried |-> r.game.solana_tx_id,
                                  version |-> r.game.version,
                                  expected |-> req.expected_version,
                                  result |-> result]}
           /\ wk' = [wk EXCEPT ![w] =
                        IF result = "retry" THEN [r EXCEPT !.attempt = @ + 1]
                        ELSE IF CompleteDone(result) THEN Finish(r, "Ok")
                        ELSE [r EXCEPT !.pc = "complete_sleep"]]
    /\ UNCHANGED <<chan, next_worker_index, coord, coordinator_enabled, subs, issued,
                   stopped, betVars, storeVars>>

\* update_settlement_complete_with_retry, lines 417-420: the sleep is over,
\* the backoff doubles up to its cap, the loop sends again.
CompleteWake(w) ==
    /\ Running(w)
    /\ wk[w].pc = "complete_sleep"
    /\ wk' = [wk EXCEPT ![w] =
                 [@ EXCEPT !.pc = "complete", !.attempt = 1,
                           !.backoff_seconds =
                               Min(@ * 2, CompletionBackoffCapSeconds)]]
    /\ UNCHANGED <<svc, chan, next_worker_index, coord, coordinator_enabled, faults,
                   subs, issued, sent, stopped, betVars, storeVars>>

\* main, lines 202-213: after ctrl_c every settlement task is aborted where
\* it stands.
Shutdown ==
    /\ ~stopped
    /\ stopped' = TRUE
    /\ wk' = [w \in Workers |-> [wk[w] EXCEPT !.aborted = TRUE]]
    /\ UNCHANGED <<svc, chan, next_worker_index, coord, coordinator_enabled, faults,
                   subs, issued, sent, betVars, storeVars>>

\* Time passes until the instant the failed settlement may be retried.
RetryDue ==
    /\ svc.status = SettlementFailed
    /\ now < svc.next_retry_after
    /\ now' = svc.next_retry_after
    /\ UNCHANGED <<bets, claimable, processing, ticks, batches, calls, ret, held,
                   settleVars>>

SettleInit ==
    /\ StoreInit
    /\ svc \in {NewSettlement(NoSig), NewSettlement(PriorSig),
                [NewSettlement(PriorSig) EXCEPT !.version = CarriedVersion]}
    /\ wk = [w \in Workers |-> IdleWorker]
    /\ cb = NewBreaker
    /\ bw = IdleBetWorker
    /\ rq = NoRequest
    /\ chan = [w \in Workers |-> << >>]
    /\ next_worker_index = 0
    /\ coord = CoordinatorWith(coordinator_batch_min_size, coordinator_batch_max_size)
    /\ coordinator_enabled \in BOOLEAN
    /\ faults = 0
    /\ subs = << >>
    /\ issued = {}
    /\ sent = {}
    /\ stopped = FALSE

Answers(outcome) == outcome = "answered" \/ faults < MaxFaults

WorkerStep(w) ==
    \/ Receive(w)
    \/ \E o \in Outcomes : Answers(o) /\ Poll(w, o)
    \/ \E o \in Outcomes : Answers(o) /\ Submitted(w, o)
    \/ \E o \in SubmissionOutcomes : Solana(w, o)
    \/ \E o \in Outcomes : Answers(o) /\ Failed(w, o)
    \/ \E o \in Outcomes : Answers(o) /\ Complete(w, o)
    \/ CompleteWake(w)

SettleLiveNext ==
    \/ \E w \in Workers : WorkerStep(w)
    \/ \E o \in Outcomes : Answers(o) /\ process_cycle(o)
    \/ send_to_worker
    \/ RetryDue

SettleNext ==
    \/ SettleLiveNext
    \/ Shutdown

\* The processor with its shutdown.
SettleSpec == SettleInit /\ [][SettleNext]_vars

\* The processor while the process stays alive: every worker keeps taking
\* its next step, and only MaxFaults requests go unanswered.
SettleLive ==
    /\ SettleInit
    /\ [][SettleLiveNext]_vars
    /\ \A w \in Workers : WF_vars(WorkerStep(w))

(***************************************************************************)
(* CircuitBreaker: calls made one at a time, and the passing of time.      *)
(***************************************************************************)
\* Variant: the breaker opens one failure late.
Trips_late(failures) == failures > failure_threshold

\* on_failure, line 86: failures >= self.failure_threshold
Trips(failures) == failures >= failure_threshold

\* Variant: the trial is admitted as soon as reset_timeout has elapsed.
Admitted_eager(b) ==
    IF b.state # "Open" THEN b
    ELSE IF b.last_failure_time # None
            /\ b.clock - b.last_failure_time >= reset_timeout_seconds
         THEN [b EXCEPT !.state = "HalfOpen"]
         ELSE [b EXCEPT !.last = "rejected"]

\* call, lines 38-57: an Open breaker whose last failure is more than
\* reset_timeout old becomes HalfOpen and admits the call; an Open breaker
\* otherwise rejects it.
Admitted(b) ==
    IF b.state # "Open" THEN b
    ELSE IF b.last_failure_time # None
            /\ b.clock - b.last_failure_time > reset_timeout_seconds
         THEN [b EXCEPT !.state = "HalfOpen"]
         ELSE [b EXCEPT !.last = "rejected"]

\* on_success: the counter is reset, a HalfOpen breaker closes.
on_success(b) ==
    [b EXCEPT !.failure_count = 0,
              !.state = IF @ = "HalfOpen" THEN "Closed" ELSE @,
              !.cleared = IF b.streak > @ THEN b.streak ELSE @,
              !.streak = 0, !.last = "ok"]

\* on_failure: the counter grows, the instant is stamped, the breaker opens
\* at the threshold.
on_failure(b) ==
    LET failures == b.failure_count + 1
    IN  [b EXCEPT !.failure_count = failures,
                  !.last_failure_time = b.clock,
                  !.state = IF Trips(failures) THEN "Open" ELSE @,
                  !.streak = @ + 1, !.last = "err"]

\* CircuitBreaker::call with an operation that returns Ok or Err.
call(operation) ==
    /\ cb.calls < MaxCalls
    /\ LET admitted == Admitted([cb EXCEPT !.calls = @ + 1, !.last = "none"])
       IN  cb' = IF admitted.last = "rejected" THEN admitted
                 ELSE IF operation = "Ok" THEN on_success(admitted)
                 ELSE on_failure(admitted)
    /\ UNCHANGED <<bw, rq, svc, wk, chan, next_worker_index, coord, coordinator_enabled,
                   faults, subs, issued, sent, stopped, storeVars>>

\* Time passes between two calls.
Wait(seconds) ==
    /\ cb.waits < MaxWaits
    /\ cb' = [cb EXCEPT !.clock = @ + seconds, !.waits = @ + 1]
    /\ UNCHANGED <<bw, rq, svc, wk, chan, next_worker_index, coord, coordinator_enabled,
                   faults, subs, issued, sent, stopped, storeVars>>

BreakerNext ==
    \/ \E operation \in {"Ok", "Err"} : call(operation)
    \/ \E seconds \in {reset_timeout_seconds, reset_timeout_seconds + 1} : Wait(seconds)

BreakerSpec == Init /\ [][BreakerNext]_vars

(***************************************************************************)
(* CircuitBreaker shared by two tasks: the calls overlap, each step is one *)
(* lock acquisition or one atomic operation.  state and last_failure_time  *)
(* are RwLocks: a read guard is granted while no write guard is held, a    *)
(* write guard while no guard is held.  The guards held between two steps  *)
(* are: the read guard on state of a task at "open" (it waits for          *)
(* last_failure_time.read()), and the write guard on last_failure_time of  *)
(* a task at "fail_state" (it waits for state.write()).                    *)
(***************************************************************************)
\* call, lines 38-57.  idle: state.read() and the test for Open; open:
\* last_failure_time.read() and the test of the elapsed time, then both
\* guards dropped; to_half: state.write() and the store of HalfOpen.
call_check(t) ==
    LET me == cb.task[t]
        others == DOMAIN cb.task \ {t}
    IN  /\ CASE me.pc = "idle" ->
                 /\ cb.calls < MaxCalls
                 /\ cb' = [cb EXCEPT !.calls = @ + 1,
                             !.task[t] = [me EXCEPT
                                 !.pc = IF cb.state = "Open" THEN "open" ELSE "operate",
                                 !.admitted = cb.state, !.returned = "none"]]
              [] me.pc = "open" ->
                 /\ \A u \in others : cb.task[u].pc # "fail_state"
                 /\ cb' = IF Admitted([cb EXCEPT !.last = "none"]).last = "rejected"
                          THEN [cb EXCEPT !.task[t] = [me EXCEPT !.pc = "idle",
                                                                 !.returned = "rejected"]]
                          ELSE [cb EXCEPT !.task[t] = [me EXCEPT !.pc = "to_half"]]
              [] me.pc = "to_half" ->
                 /\ \A u \in others : cb.task[u].pc # "open"
                 /\ cb' = [cb EXCEPT !.state = "HalfOpen",
                             !.task[t] = [me EXCEPT !.pc = "operate",
                                                    !.admitted = "HalfOpen"]]
              [] OTHER -> FALSE
        /\ UNCHANGED <<bw, rq, svc, wk, chan, next_worker_index, coord, coordinator_enabled,
                       faults, subs, issued, sent, stopped, storeVars>>

\* call, lines 60-69, with the first statement of on_success or on_failure:
\* operation() returns and failure_count is stored 0 or incremented.
call_operation(t, ok) ==
    LET me == cb.task[t]
    IN  /\ me.pc = "operate"
        /\ cb' = IF ok
                 THEN [cb EXCEPT !.failure_count = 0,
                                 !.task[t] = [me EXCEPT !.pc = "succ_state",
                                                !.result_in = cb.state]]
                 ELSE [cb EXCEPT !.failure_count = @ + 1,
                                 !.task[t] = [me EXCEPT !.pc = "fail_last",
                                                !.result_in = cb.state,
                                                !.failures = cb.failure_count + 1]]
        /\ UNCHANGED <<bw, rq, svc, wk, chan, next_worker_index, coord, coordinator_enabled,
                       faults, subs, issued, sent, stopped, storeVars>>

\* on_success, lines 74-78: state.write(), HalfOpen becomes Closed.
on_success_state(t) ==
    LET me == cb.task[t]
    IN  /\ me.pc = "succ_state"
        /\ \A u \in DOMAIN cb.task \ {t} : cb.task[u].pc # "open"
        /\ cb' = [cb EXCEPT !.state = IF @ = "HalfOpen" THEN "Closed" ELSE @,
                            !.task[t] = [me EXCEPT !.pc = "idle", !.returned = "ok"]]
        /\ UNCHANGED <<bw, rq, svc, wk, chan, next_worker_index, coord, coordinator_enabled,
                       faults, subs, issued, sent, stopped, storeVars>>

\* on_failure, lines 83-90.  fail_last: last_failure_time.write() and the
\* stamp; fail_state: with that guard still held, state.write() and Open.
on_failure_locks(t) ==
    LET me == cb.task[t]
        others == DOMAIN cb.task \ {t}
    IN  /\ CASE me.pc = "fail_last" ->
                 /\ \A u \in others : cb.task[u].pc # "fail_state"
                 /\ cb' = [cb EXCEPT !.last_failure_time = cb.clock,
                             !.task[t] = IF Trips(me.failures)
                                         THEN [me EXCEPT !.pc = "fail_state"]
                                         ELSE [me EXCEPT !.pc = "idle", !.returned = "err"]]
              [] me.pc = "fail_state" ->
                 /\ \A u \in others : cb.task[u].pc # "open"
                 /\ cb' = [cb EXCEPT !.state = "Open",
                             !.task[t] = [me EXCEPT !.pc = "idle", !.returned = "err"]]
              [] OTHER -> FALSE
        /\ UNCHANGED <<bw, rq, svc, wk, chan, next_worker_index, coord, coordinator_enabled,
                       faults, subs, issued, sent, stopped, storeVars>>

RaceNext ==
    \/ \E t \in DOMAIN cb.task : call_check(t)
    \/ \E t \in DOMAIN cb.task, ok \in BOOLEAN : call_operation(t, ok)
    \/ \E t \in DOMAIN cb.task : on_success_state(t)
    \/ \E t \in DOMAIN cb.task : on_failure_locks(t)
    \/ \E seconds \in {reset_timeout_seconds, reset_timeout_seconds + 1} : Wait(seconds)

RaceSpec == Init /\ [][RaceNext]_vars

(***************************************************************************)
(* The bet worker (worker_pool_original.rs): one worker, "w1", that claims *)
(* bets from the queue store, submits them on chain in chunks and reports  *)
(* the outcome of every chunk to the queue API (handlers/external.rs).     *)
(* A request of the worker is answered ("ok"), fails before the API        *)
(* handles it ("lost"), or fails after ("unanswered").                     *)
(***************************************************************************)
\* Variant: the claimed bets are submitted as one chunk.
Chunks_whole(list, max_per_tx) == IF list = << >> THEN << >> ELSE <<list>>

\* resp.bets.chunks(max_per_tx)
RECURSIVE Chunks(_, _)
Chunks(list, max_per_tx) ==
    IF list = << >> THEN << >>
    ELSE LET n == Min(max_per_tx, Len(list))
         IN  <<SubSeq(list, 1, n)>> \o Chunks(SubSeq(list, n + 1, Len(list)), max_per_tx)

\* update_batch, for a status other than FailedRetryable: update_status and
\* update_bet_fields for every bet result of the request, in order.  st holds
\* the bet hashes and the two indexes; won maps bet ids to the result reported
\* (no entry: won is None; otherwise won.to_string()).
RECURSIVE update_batch(_, _, _, _)
update_batch(st, ids, status, won) ==
    IF ids = << >> THEN st
    ELSE LET id == Head(ids)
             h == HashOf(st.bets, id)
             next ==
               [bets |-> [m \in (DOMAIN st.bets) \cup {id} |->
                            IF m = id
                            THEN [h EXCEPT !.status = status,
                                           !.won = IF id \in DOMAIN won THEN won[id] ELSE @]
                            ELSE st.bets[m]],
                claimable |-> StatusClaimable(st.claimable, id, status, now),
                processing |-> StatusProcessing(st.processing, id, status, now)]
         IN  update_batch(next, Tail(ids), status, won)

\* Worker::run and the head of process_batch: the breaker check, the GET of
\* /api/external/bets/pending and the split into chunks.  A claim that finds
\* nothing due changes no bet and no index; its batch uuid is kept by nobody
\* and is not counted.
BetClaim(answer) ==
    LET entries == ZRangeByScoreLimit(claimable, now, ClampLimit(batch_size))
    IN  /\ bw.pc = "tick"
        /\ cb.state # "Open"
        /\ answer # "ok" => bw.faults < MaxReportFaults
        /\ IF answer = "lost" THEN UNCHANGED storeVars
           ELSE IF entries = << >>
                THEN /\ ret' = [op |-> "claim", ok |-> TRUE, ids |-> << >>, batch_id |-> 0]
                     /\ UNCHANGED <<bets, claimable, processing, now, ticks, batches,
                                    calls, held>>
                ELSE claim_pending("w1", batch_size)
        /\ bw' = IF answer # "ok" THEN [bw EXCEPT !.faults = @ + 1]
                 ELSE IF entries = << >> THEN bw
                 ELSE [bw EXCEPT !.pc = "execute", !.batch_id = batches + 1,
                                 !.chunks = Chunks(entries, Max(bw.max_per_tx, 1))]
        /\ UNCHANGED <<cb, rq, svc, wk, chan, next_worker_index, coord, coordinator_enabled,
                       faults, subs, issued, sent, stopped>>

\* execute_bets_on_solana for the next chunk: a signature and a result for
\* every bet of the chunk, or an error.
BetExecute(ok, results) ==
    /\ bw.pc = "execute"
    /\ bw' = IF ok
             THEN [bw EXCEPT !.pc = "submitted", !.signature = PriorSig,
                             !.results = results,
                             !.executed = @ \cup Range(Head(bw.chunks))]
             ELSE [bw EXCEPT !.pc = "failed"]
    /\ UNCHANGED <<cb, rq, svc, wk, chan, next_worker_index, coord, coordinator_enabled,
                   faults, subs, issued, sent, stopped, storeVars>>

\* Phases 3 and 4 of process_batch: post_batch_update(...).await? with the
\* bets of the chunk as SubmittedToSolana, then as Completed with won and
\* payout_amount.  A request that fails ends process_batch with the error.
BetReport(answer) ==
    LET chunk == Head(bw.chunks)
        status == IF bw.pc = "submitted" THEN SubmittedToSolana ELSE Completed
        won == IF bw.pc = "submitted" THEN << >> ELSE bw.results
        st == update_batch([bets |-> bets, claimable |-> claimable,
                            processing |-> processing], chunk, status, won)
    IN  /\ bw.pc \in {"submitted", "confirmed"}
        /\ answer # "ok" => bw.faults < MaxReportFaults
        /\ IF answer = "lost"
           THEN UNCHANGED <<bets, claimable, processing, ret>>
           ELSE /\ bets' = st.bets
                /\ claimable' = st.claimable
                /\ processing' = st.processing
                /\ ret' = Unit
        /\ bw' = IF answer # "ok"
                 THEN [bw EXCEPT !.pc = "tick", !.chunks = << >>, !.faults = @ + 1]
                 ELSE IF bw.pc = "submitted" THEN [bw EXCEPT !.pc = "confirmed"]
                 ELSE [bw EXCEPT !.chunks = Tail(@),
                                 !.pc = IF Tail(bw.chunks) = << >> THEN "tick"
                                        ELSE "execute"]
        /\ UNCHANGED <<now, ticks, batches, calls, held>>
        /\ UNCHANGED <<cb, rq, svc, wk, chan, next_worker_index, coord, coordinator_enabled,
                       faults, subs, issued, sent, stopped>>

\* The Err arm of process_batch: the best-effort report of the chunk as
\* FailedRetryable (let _ = ...), then return Err(e).  handled: the request
\* reaches update_batch, which takes the bets one after the other.
BetReportFailed(handled) ==
    /\ bw.pc = "failed"
    /\ ~handled => bw.faults < MaxReportFaults
    /\ bw' = IF handled THEN [bw EXCEPT !.pc = "failing", !.report = Head(bw.chunks)]
             ELSE [bw EXCEPT !.pc = "tick", !.chunks = << >>, !.faults = @ + 1]
    /\ UNCHANGED <<cb, rq, svc, wk, chan, next_worker_index, coord, coordinator_enabled,
                   faults, subs, issued, sent, stopped, storeVars>>

\* update_batch, status FailedRetryable: update_status reads the retry count
\* of the next bet of the request ...
BetFailRead ==
    /\ bw.pc = "failing"
    /\ FailRead("w1", Head(bw.report))
    /\ UNCHANGED settleVars

\* ... and runs FAIL_RETRYABLE_SCRIPT for it; after the last bet the request
\* is answered and process_batch returns the error of the chunk.
BetFailScript ==
    /\ bw.pc = "failing"
    /\ FailScript("w1")
    /\ bw' = [bw EXCEPT !.report = Tail(@), !.chunks = IF Tail(bw.report) = << >> THEN << >> ELSE @,
                        !.pc = IF Tail(bw.report) = << >> THEN "tick" ELSE "failing"]
    /\ UNCHANGED <<cb, rq, svc, wk, chan, next_worker_index, coord, coordinator_enabled,
                   faults, subs, issued, sent, stopped>>

BetWorkerNext ==
    \/ \E answer \in {"ok", "lost", "unanswered"} : BetClaim(answer)
    \/ /\ bw.pc = "execute"
       /\ \E ok \in BOOLEAN, results \in [Range(Head(bw.chunks)) -> {"true", "false"}] :
             BetExecute(ok, results)
    \/ \E answer \in {"ok", "lost", "unanswered"} : BetReport(answer)
    \/ \E handled \in BOOLEAN : BetReportFailed(handled)
    \/ BetFailRead
    \/ BetFailScript

BetNext ==
    \/ BetWorkerNext
    \/ \E d \in TickSteps : ticks < MaxTicks /\ Tick(d) /\ UNCHANGED settleVars

\* The worker's ticker fires for as long as the worker runs, and every
\* request of the worker ends.
\* The store holds bets; the worker starts with PROCESSOR_MAX_BETS_PER_TX
\* unset (12) or set to 0, 1 or 2; nothing else of the processor runs.
BetInit ==
    /\ Populated(SmallPopulation)
    /\ \E m \in {0, 1, 2, max_bets_per_tx} : bw = [IdleBetWorker EXCEPT !.max_per_tx = m]
    /\ rq = NoRequest
    /\ svc = NewSettlement(NoSig)
    /\ wk = [w \in Workers |-> IdleWorker]
    /\ cb = NewBreaker
    /\ chan = [w \in Workers |-> << >>]
    /\ next_worker_index = 0
    /\ coord = CoordinatorWith(coordinator_batch_min_size, coordinator_batch_max_size)
    /\ coordinator_enabled = TRUE
    /\ faults = 0
    /\ subs = << >>
    /\ issued = {}
    /\ sent = {}
    /\ stopped = FALSE

BetLive ==
    /\ BetInit
    /\ [][BetNext]_vars
    /\ WF_vars(BetWorkerNext)

(***************************************************************************)
(* BlockchainClient, one call attempt by attempt (blockchain_client.rs).   *)
(* A response is its HTTP status (0: the request failed in transport) and  *)
(* what its body holds: "json" is a body that parses, any other body does  *)
(* not parse and stands for the text it carries.                           *)
(***************************************************************************)
\* fetch_pending_settlements_once / update_settlement_status_once: Ok, or the
\* error with the substrings its text (e.to_string()) is searched for.  The
\* text is "HTTP request failed", "Failed to parse response" or
\* "Blockchain API error <status>: <body>".
once(resp) ==
    IF resp.status = 0 THEN [ok |-> FALSE, contains |-> {}]
    ELSE IF resp.status \notin 200..299
    THEN [ok |-> FALSE,
          contains |-> (IF resp.status = 409 THEN {"409"}
                        ELSE IF resp.status = 400 THEN {"400"}
                        ELSE IF resp.status = 404 THEN {"404"} ELSE {})
                       \cup ({resp.body} \cap {"409", "400", "404", "Version mismatch"})]
    ELSE IF resp.body # "json" THEN [ok |-> FALSE, contains |-> {}]
    ELSE [ok |-> TRUE, contains |-> {}]

\* fetch_pending_settlements: what the loop does with one attempt's result.
fetch_attempt(result, attempt) ==
    IF result.ok THEN "ok"
    ELSE IF attempt = MAX_RETRIES THEN "error"
    ELSE "retry"

\* update_settlement_status: what the loop does with one attempt's result.
update_attempt(result, attempt) ==
    LET extract_status_code ==
            IF "409" \in result.contains THEN 409
            ELSE IF "400" \in result.contains THEN 400
            ELSE IF "404" \in result.contains THEN 404
            ELSE None
    IN  IF result.ok THEN "ok"
        ELSE IF "409" \in result.contains \/ "Version mismatch" \in result.contains
        THEN "conflict"
        ELSE IF extract_status_code # None /\ extract_status_code \in 400..499
        THEN "client_error"
        ELSE IF attempt = MAX_RETRIES THEN "error"
        ELSE "retry"

\* A caller starts fetch_pending_settlements or update_settlement_status.
ClientCall(op) ==
    /\ rq.op = "none" \/ rq.returned # "none"
    /\ rq' = [NoRequest EXCEPT !.op = op, !.attempt = 1]
    /\ UNCHANGED <<cb, bw, svc, wk, chan, next_worker_index, coord, coordinator_enabled,
                   faults, subs, issued, sent, stopped, storeVars>>

\* One iteration of the retry loop: the attempt is answered with resp; the
\* call returns, or sleeps 2^(attempt - 1) * 1000 ms and goes on.
ClientAttempt(resp) ==
    /\ rq.op # "none"
    /\ rq.returned = "none"
    /\ LET result == once(resp)
           next == IF rq.op = "fetch" THEN fetch_attempt(result, rq.attempt)
                   ELSE update_attempt(result, rq.attempt)
       IN  rq' = IF next = "retry"
                 THEN [rq EXCEPT !.attempt = @ + 1, !.last = resp,
                                 !.waits = Append(@, Pow2(rq.attempt - 1) * 1000)]
                 ELSE [rq EXCEPT !.last = resp, !.returned = next]
    /\ UNCHANGED <<cb, bw, svc, wk, chan, next_worker_index, coord, coordinator_enabled,
                   faults, subs, issued, sent, stopped, storeVars>>

ClientNext ==
    \/ \E op \in {"fetch", "update"} : ClientCall(op)
    \/ \E status \in {0, 200, 400, 401, 404, 409, 429, 500, 503},
          body \in {"", "json", "404", "409", "Version mismatch"} :
          ClientAttempt([status |-> status, body |-> body])

ClientSpec == Init /\ [][ClientNext]_vars

(***************************************************************************)
(* The packing workload: a coordinator with small batch sizes (0 included) *)
(* or the configured ones, and cycles that fetch 0..MaxFetched pending     *)
(* settlements with all-Win, all-Loss, alternating, partly unknown and     *)
(* Wins-then-Losses outcomes.  The fetched settlements are told apart by their versions.    *)
(***************************************************************************)
PackSizes == 0..MaxPackSize
OutcomePatterns == {"wins", "losses", "mixed", "unknown", "wins_first"}

OutcomeAt(pattern, i) ==
    CASE pattern = "wins" -> "Win"
      [] pattern = "losses" -> "Loss"
      [] pattern = "mixed" -> IF i % 2 = 1 THEN "Win" ELSE "Loss"
      [] pattern = "wins_first" -> IF i <= LeadingWins THEN "Win" ELSE "Loss"
      [] OTHER -> IF i % 3 = 0 THEN "Draw" ELSE IF i % 3 = 1 THEN "Win" ELSE "Loss"

Fetched(n, pattern) ==
    [i \in 1..n |-> [NoGame EXCEPT !.version = i, !.outcome = OutcomeAt(pattern, i)]]

PackInit ==
    /\ StoreInit
    /\ svc = NewSettlement(NoSig)
    /\ wk = [w \in Workers |-> IdleWorker]
    /\ cb = NewBreaker
    /\ bw = IdleBetWorker
    /\ rq = NoRequest
    /\ chan = [w \in Workers |-> << >>]
    /\ next_worker_index = 0
    /\ coordinator_enabled = TRUE
    /\ faults = 0
    /\ subs = << >>
    /\ issued = {}
    /\ sent = {}
    /\ stopped = FALSE
    /\ \/ coord = CoordinatorWith(coordinator_batch_min_size, coordinator_batch_max_size)
       \/ \E min_size \in PackSizes, max_size \in PackSizes :
              coord = CoordinatorWith(min_size, max_size)

\* One cycle's grouping and batching of a fetched list.
PackCycle(n, pattern) ==
    /\ coord' = Packed(coord, Fetched(n, pattern))
    /\ UNCHANGED <<svc, wk, chan, next_worker_index, coordinator_enabled, faults,
                   subs, issued, sent, stopped, betVars, storeVars>>

PackNext == \E n \in 0..MaxFetched, pattern \in OutcomePatterns : PackCycle(n, pattern)

PackSpec == PackInit /\ [][PackNext]_vars

(***************************************************************************)
(* The dispatch workload: cycles over short fetched lists whose batches    *)
(* are sent to workers that have not received anything yet.                *)
(***************************************************************************)
DispatchCycle(n, pattern) ==
    /\ coord.outbox = << >>
    /\ PackCycle(n, pattern)

DispatchNext ==
    \/ \E n \in 0..MaxDispatchFetched, pattern \in OutcomePatterns :
          DispatchCycle(n, pattern)
    \/ send_to_worker

DispatchSpec == PackInit /\ [][DispatchNext]_vars

(***************************************************************************)
(* Properties of the queue store                                           *)
(***************************************************************************)

\* C3: a bet id is returned to at most one ClaimPending caller; a claim
\* returns an id that an earlier claim returned only if the id was put back
\* into claimable in between.
C3_ClaimsDisjoint ==
    [][batches' # batches => Range(ret'.ids) \cap held = {}]_vars

\* Two claims were made, the bet went to the first and the second got nothing.
C3_Witness ==
    /\ batches = 2
    /\ ret.op = "claim" /\ ret.ok /\ ret.ids = << >>
    /\ \E id \in held : bets[id].external_batch_id = 1

\* C4: no bet id is in both the claimable and the processing index.
C4_IndexDisjoint == ZMembers(claimable) \cap DOMAIN processing = {}

\* A bet that failed, was rescheduled and has been claimed again.
C4_Witness ==
    \E id \in DOMAIN processing :
        bets[id].retry_count >= 1 /\ bets[id].status = Batched

\* C5: status Pending or FailedRetryable iff in claimable, status Batched iff
\* in processing, any other status in neither index.
C5_StatusIndexConsistent ==
    \A id \in DOMAIN bets :
        /\ bets[id].status \in {Pending, FailedRetryable} <=> id \in ZMembers(claimable)
        /\ bets[id].status = Batched <=> id \in DOMAIN processing

\* C8: UpdateStatusCAS(id, v, s) returns true iff the stored version is v;
\* then it sets the status to s and the version to v + 1, otherwise it changes
\* nothing; and no operation ever lowers a version, so a second CAS with the
\* same expected version fails and later reads see version >= v + 1.
C8_CasContract ==
    [][ /\ ret'.op = "cas" =>
           \A id \in BetIds, v \in 0..VersionCap, s \in CasStatuses :
              UpdateStatusCAS(id, v, s) =>
                  /\ ret'.ok <=> (Hash(id).version = v)
                  /\ ret'.ok => bets'[id] = [Hash(id) EXCEPT !.status = s,
                                                           !.version = v + 1]
                  /\ ~ret'.ok => bets' = bets
                  /\ \A m \in DOMAIN bets : m # id => bets'[m] = bets[m]
        /\ \A id \in DOMAIN bets : bets'[id].version >= bets[id].version
      ]_vars

\* A CAS was refused on a bet whose version an earlier CAS had raised.
C8_Witness ==
    /\ ret.op = "cas" /\ ~ret.ok
    /\ \E id \in DOMAIN bets : bets[id].version >= 1

\* C10: the retry transition applied to a bet whose stored retry_count c has
\* c + 1 > MAX_RETRIES sets FailedManualReview, stores c + 1 and leaves the
\* id in neither index.
C10_Escalation ==
    [][\A c \in Callers :
          (calls[c].pc = "fail_script" /\ FailScript(c) /\ Hash(calls[c].id).retry_count + 1 > max_retry_count) =>
              LET id == calls[c].id
              IN  /\ bets'[id].status = FailedManualReview
                  /\ bets'[id].retry_count = bets[id].retry_count + 1
                  /\ id \notin ZMembers(claimable')
                  /\ id \notin DOMAIN processing'
      ]_vars

\* A claimed bet whose sixth failure sent it to manual review.
C10_Witness ==
    \E id \in DOMAIN bets :
        /\ bets[id].status = FailedManualReview
        /\ bets[id].retry_count = max_retry_count + 1
        /\ bets[id].processor_id # ""
        /\ id \notin ZMembers(claimable) /\ id \notin DOMAIN processing

\* C11: the retry transition applied at instant T to a bet whose stored
\* retry_count is the c the call read, with c + 1 <= MAX_RETRIES, sets
\* FailedRetryable and retry_count c + 1, removes the id from processing and
\* schedules it in claimable at T + min(BASE * 2^c, MAX): 2000, 4000, 8000,
\* 16000, 32000 ms for the 1st to 5th failure, never more than 60000 ms.
C11_Backoff ==
    [][\A c \in Callers :
          (/\ calls[c].pc = "fail_script" /\ FailScript(c)
           /\ calls[c].current_retry = Hash(calls[c].id).retry_count
           /\ Hash(calls[c].id).retry_count + 1 <= max_retry_count) =>
              LET id == calls[c].id
                  k == Hash(id).retry_count
                  T == calls[c].now_ms
                  delay == Min(retry_backoff_base_ms * Pow2(k), retry_backoff_max_ms)
              IN  /\ bets'[id].status = FailedRetryable
                  /\ bets'[id].retry_count = k + 1
                  /\ id \notin DOMAIN processing'
                  /\ id \in ZMembers(claimable')
                  /\ claimable'.score[id] = T + delay
                  /\ bets'[id].next_attempt_at_ms = T + delay
                  /\ delay = <<2000, 4000, 8000, 16000, 32000>>[k + 1]
                  /\ delay <= 60000
      ]_vars

\* A bet whose fifth failure, reported at instant 60000, scheduled it 32000 ms
\* later.
C11_Witness ==
    \E id \in DOMAIN bets :
        /\ bets[id].status = FailedRetryable
        /\ bets[id].retry_count = max_retry_count
        /\ id \in ZMembers(claimable)
        /\ claimable.score[id] = 60000 + 32000

\* C12: a retry transition applied after another one of the same bet, the
\* two calls overlapping or not, adds exactly 1 to the stored retry_count (2
\* for the pair) and schedules the bet with the backoff of the count it
\* stores, the larger one.
C12_DoubleFailure ==
    [][\A c \in Callers :
          (/\ calls[c].pc = "fail_script" /\ FailScript(c)
           /\ Hash(calls[c].id).retry_count + 1 <= max_retry_count) =>
              LET id == calls[c].id
              IN  /\ bets'[id].retry_count = Hash(id).retry_count + 1
                  /\ id \in ZMembers(claimable')
                  /\ claimable'.score[id] =
                        calls[c].now_ms + compute_backoff_ms(bets'[id].retry_count)
      ]_vars

\* C13: a bet that is not in FailedManualReview has retry_count <= MAX_RETRIES,
\* and no bet has retry_count > MAX_RETRIES + 1.
C13_RetryBounded ==
    \A id \in DOMAIN bets :
        /\ bets[id].status # FailedManualReview => bets[id].retry_count <= max_retry_count
        /\ bets[id].retry_count <= max_retry_count + 1

\* C14: a claim or a reported retryable failure leaves a Completed or
\* FailedManualReview bet with its status and puts it into neither index.
C14_TerminalStays ==
    [][\A id \in DOMAIN bets :
          (/\ bets[id].status \in {Completed, FailedManualReview}
           /\ \/ batches' # batches
              \/ \E c \in Callers : /\ calls[c].pc = "fail_script"
                                     /\ calls[c].id = id
                                     /\ calls'[c].pc = "idle") =>
              /\ bets'[id].status = bets[id].status
              /\ id \in ZMembers(claimable') => id \in ZMembers(claimable)
              /\ id \in DOMAIN processing' => id \in DOMAIN processing
      ]_vars

\* C15: no store operation lowers a bet's retry_count, and every retry
\* transition adds exactly 1 to it.
C15_RetryMonotone ==
    [][/\ \A id \in DOMAIN bets : bets'[id].retry_count >= bets[id].retry_count
       /\ \A c \in Callers :
             (calls[c].pc = "fail_script" /\ FailScript(c)) =>
                 bets'[calls[c].id].retry_count = Hash(calls[c].id).retry_count + 1
      ]_vars

\* A bet past its budget took one more failure report: its count is
\* MAX_RETRIES + 2.
C15_Witness ==
    \E id \in DOMAIN bets : bets[id].retry_count = max_retry_count + 2

\* What a claim by c must have done when it took k entries.
ClaimPost(c, k) ==
    LET due == {m \in ZMembers(claimable) : claimable.score[m] <= now}
        taken == ZMembers(claimable) \ ZMembers(claimable')
    IN  /\ Cardinality(taken) = k
        /\ taken \subseteq due
        /\ \A m \in taken, o \in due \ taken : claimable.score[m] <= claimable.score[o]
        /\ \A m \in taken :
              /\ bets'[m].status = Batched
              /\ bets'[m].processor_id = c
              /\ bets'[m].external_batch_id = ret'.batch_id
              /\ m \in DOMAIN processing'
        /\ ret'.ok /\ Range(ret'.ids) = taken /\ Len(ret'.ids) = k
        /\ ZMembers(claimable') \subseteq ZMembers(claimable)
        /\ \A m \in ZMembers(claimable') :
              /\ claimable'.score[m] = claimable.score[m]
              /\ bets'[m] = bets[m]
              /\ m \notin DOMAIN processing'
        /\ \A m \in DOMAIN processing :
              m \in DOMAIN processing' /\ processing'[m] = processing[m] /\ bets'[m] = bets[m]
        /\ DOMAIN processing' = (DOMAIN processing) \cup taken
        /\ (claimable = EmptyZ /\ processing = << >>) =>
              (ret'.ids = << >> /\ claimable' = EmptyZ /\ processing' = << >>)

DueNow == Cardinality({m \in ZMembers(claimable) : claimable.score[m] <= now})

\* C9 as stated: ClaimPending(limit, w) claims exactly min(limit, number of
\* due entries) entries, the due ones with the lowest scores (a negative limit
\* read as 0), stamps them and leaves every other entry as it was.
C9_AsStated ==
    [][batches' # batches =>
          \A c \in Callers, limit \in ClaimLimits :
              claim_pending(c, limit) => ClaimPost(c, Min(Max(limit, 0), DueNow))
      ]_vars

\* C9 amended: ClaimPending(limit, w) claims exactly
\* min(min(max(limit, 0), 500), number of due entries) entries, the due ones
\* with the lowest scores, stamps them with Batched, w and the returned batch
\* id, moves them from claimable to processing, and leaves every other entry
\* as it was; on an empty store it returns nothing and changes no index.
C9_ClaimExact ==
    [][batches' # batches =>
          \A c \in Callers, limit \in ClaimLimits :
              claim_pending(c, limit) =>
                  ClaimPost(c, Min(Min(Max(limit, 0), CLAIM_LIMIT_MAX), DueNow))
      ]_vars

\* A claim took 500 entries and left due entries behind, next to an entry
\* that is not due yet.
C9_Witness ==
    /\ ret.op = "claim" /\ Len(ret.ids) = CLAIM_LIMIT_MAX
    /\ \E m \in ZMembers(claimable) : claimable.score[m] <= now
    /\ \E m \in ZMembers(claimable) : claimable.score[m] > now

(***************************************************************************)
(* Properties of the settlement workers                                    *)
(***************************************************************************)
ChainSigs == (PriorSig + 1)..(PriorSig + SettlementRetryLimit)

C2_AtMostOnce ==
    /\ \A i, j \in DOMAIN subs : subs[i] = subs[j] => i = j
    /\ \A w \in Workers :
          wk[w].pc = "solana" =>
              /\ svc.version = wk[w].game.version + 1
              /\ svc.status = SvcSubmittedToSolana
              /\ wk[w].game.version \notin Range(subs)
              /\ \A w2 \in Workers \ {w} :
                    wk[w2].pc = "solana" => wk[w2].game.version # wk[w].game.version

\* Two workers hold copies at the same version; one has submitted on-chain,
\* the other is still about to send its SubmittedToSolana update.
C2_Witness ==
    \E w1, w2 \in Workers :
        /\ w1 # w2
        /\ wk[w1].game.version = wk[w2].game.version
        /\ wk[w1].pc = "submitted"
        /\ wk[w2].pc \in {"complete", "failed"}
        /\ wk[w2].src \in {"chain", "failed"}
        /\ wk[w2].game.version \in Range(subs)

\* C6: no worker is aborted by the shutdown while it holds a signature from
\* the chain that its SettlementComplete update has not yet got recorded.
C6_CompletionNotCancelled ==
    \A w \in Workers :
        wk[w].aborted =>
            ~ /\ wk[w].pc \in {"complete", "complete_sleep"}
              /\ wk[w].src = "chain"
              /\ ~(svc.status = SettlementComplete /\ svc.solana_tx_id = wk[w].sig)

\* C7: every SettlementComplete update a worker sent carries a signature: the
\* one an on-chain submission returned to that worker, or the one its fetched
\* copy carried; none is sent after a failed submission or a version
\* conflict.
C7_CompleteOnlyWithSignature ==
    /\ \A r \in sent :
          /\ r.sig # NoSig
          /\ r.src \in {"chain", "fetched"}
          /\ r.src = "chain" => <<r.w, r.sig>> \in issued /\ r.carried = NoSig
          /\ r.src = "fetched" => r.sig = r.carried
    /\ \A w \in Workers :
          wk[w].pc \in {"complete", "complete_sleep"} =>
              wk[w].src \in {"chain", "fetched"}

\* A SettlementComplete update was sent with the signature of a submission
\* that followed a failed one.
C7_Witness ==
    /\ Len(subs) >= 2
    /\ \E r \in sent : r.src = "chain" /\ <<r.w, r.sig>> \in issued
(***************************************************************************)
(* Properties of the coordinator                                           *)
(***************************************************************************)
RECURSIVE Concat(_)
Concat(lists) == IF lists = << >> THEN << >> ELSE Head(lists) \o Concat(Tail(lists))

\* The settlement lists of the batches of one type, in emission order.
Emitted(batch_type) ==
    LET of_type == SelectSeq(coord.outbox, LAMBDA b : b.batch_type = batch_type)
    IN  [i \in 1..Len(of_type) |-> of_type[i].settlements]

\* C16: for the Wins and for the Losses of a cycle, the concatenation of the
\* settlement lists of the emitted batches, in emission order, is the input
\* list: same order, nothing lost, nothing duplicated, whatever the length
\* of the list and the values of batch_min_size and batch_max_size.
C16_PackingPreserves ==
    /\ Concat(Emitted("Payout")) = coord.wins
    /\ Concat(Emitted("Spend")) = coord.losses
    /\ Len(Emitted("Payout")) + Len(Emitted("Spend")) = Len(coord.outbox)

\* A cycle whose Wins and whose Losses each left a remainder below
\* batch_min_size, which was appended to the last full batch.
C16_Witness ==
    /\ coord.batch_min_size = 3 /\ coord.batch_max_size = 3
    /\ Len(coord.wins) = 5 /\ Len(coord.losses) = 4
    /\ Len(coord.outbox) = 2
    /\ Len(coord.outbox[1].settlements) = 5
    /\ Len(coord.outbox[2].settlements) = 4

\* C17: every batch the coordinator emits holds at most batch_max_size
\* settlements.  (Stated for a batch_max_size of at least 1: with 0 the loop
\* closes a batch after each settlement, so every batch holds one.)
C17_BatchBounded ==
    coord.batch_max_size >= 1 =>
        \A i \in 1..Len(coord.outbox) :
            Len(coord.outbox[i].settlements) <= coord.batch_max_size

\* The worker the next send goes to.
RoundRobinTarget == next_worker_index + 1

\* The coordinator is inside a send whose channel is full.
SendBlocked ==
    /\ coord.outbox # << >>
    /\ Len(chan[RoundRobinTarget]) >= coordinator_channel_buffer_size

\* C20: a worker channel never holds more than
\* coordinator_channel_buffer_size batches.  A batch enters a channel only
\* as the cycle's next batch entering the round-robin target's channel.
\* While the target's channel is full the coordinator waits in that send:
\* the batch stays the next one to send, the target stays the same, and no
\* channel gets a batch until the target worker has received one.
C20_Backpressure ==
    /\ [](\A w \in Workers : Len(chan[w]) <= coordinator_channel_buffer_size)
    /\ [][/\ \A w \in Workers :
                Len(chan'[w]) > Len(chan[w]) =>
                    /\ w = RoundRobinTarget
                    /\ coord.outbox # << >>
                    /\ chan' = [chan EXCEPT ![w] = Append(@, Head(coord.outbox))]
                    /\ coord'.outbox = Tail(coord.outbox)
          /\ SendBlocked =>
                /\ coord' = coord
                /\ next_worker_index' = next_worker_index
                /\ \A w \in Workers : Len(chan'[w]) <= Len(chan[w])
         ]_vars

\* The coordinator waits on a full channel while the other worker's channel
\* has room.
C20_Witness ==
    /\ SendBlocked
    /\ ~stopped
    /\ \E w \in Workers : w # RoundRobinTarget /\ Len(chan[w]) < coordinator_channel_buffer_size

(***************************************************************************)
(* Properties of the settlement worker, continued                          *)
(***************************************************************************)
\* The worker is processing a fetched settlement that carries a signature.
CarriesSignature(w) == wk[w].pc # "idle" /\ wk[w].game.solana_tx_id # NoSig

\* C18: for a fetched settlement that already carries a chain signature the
\* worker is only ever in the completion step, with that signature and the
\* fetched version as expected version; it makes no on-chain submission for
\* it; and every update it sends for it is UpdateStatus(SettlementComplete,
\* that signature, expected_version = the fetched version).
C18_CarriedSignature ==
    /\ [](/\ \A w \in Workers :
                CarriesSignature(w) =>
                    /\ wk[w].pc \in {"complete", "complete_sleep"}
                    /\ wk[w].sig = wk[w].game.solana_tx_id
                    /\ wk[w].expected = wk[w].game.version
          /\ \A s \in sent :
                s.carried # NoSig =>
                    s.sig = s.carried /\ s.expected = s.version /\ s.src = "fetched")
    /\ [][\A w \in Workers :
              (CarriesSignature(w) /\ wk'[w] # wk[w]) =>
                  /\ subs' = subs
                  /\ issued' = issued
                  /\ svc' # svc =>
                        /\ svc'.status = SettlementComplete
                        /\ svc'.solana_tx_id = wk[w].game.solana_tx_id
                        /\ svc.version = wk[w].game.version
         ]_vars

\* The settlement fetched with signature PriorSig at version 4 was completed
\* by UpdateStatus(SettlementComplete, PriorSig, 4).
C18_Witness ==
    /\ \E s \in sent :
          /\ s.carried = PriorSig /\ s.sig = PriorSig
          /\ s.version = CarriedVersion /\ s.expected = CarriedVersion
    /\ svc.status = SettlementComplete
    /\ svc.solana_tx_id = PriorSig
    /\ subs = << >>

\* The worker is in update_settlement_complete_with_retry.
InCompletionLoop(w) == wk[w].pc \in {"complete", "complete_sleep"}

\* The worker stays in the loop with the same update to send.
SameUpdate(w) ==
    /\ wk'[w].pc \in {"complete", "complete_sleep"}
    /\ wk'[w].sig = wk[w].sig
    /\ wk'[w].expected = wk[w].expected
    /\ wk'[w].game = wk[w].game

ScriptStep ==
    \/ batches' # batches
    \/ \E c \in Callers : calls[c].pc = "fail_script" /\ calls'[c].pc = "idle"

\* C23: every status change made by the claim script or by the
\* retry-transition script also increases the bet's version (so that a CAS
\* holding the version read before the change is refused).
C23_ScriptsBumpVersion ==
    [][\A id \in DOMAIN bets :
          (ScriptStep /\ bets'[id].status # bets[id].status) =>
              bets'[id].version > bets[id].version
      ]_vars

(***************************************************************************)
(* Properties of the coordinator, continued                                *)
(***************************************************************************)
\* The batches of one type are the full batches of batch_max_size cut from
\* the list, followed by the remainder as a batch of its own when it has
\* batch_min_size settlements or no batch precedes it, and else with the
\* remainder appended to the last full batch.
RemainderRule(list, batch_type) ==
    LET max_size == coord.batch_max_size
        n == Len(list)
        full == n \div max_size
        r == n % max_size
        own == r > 0 /\ (r >= coord.batch_min_size \/ full = 0)
        out == Emitted(batch_type)
    IN  /\ Len(out) = full + (IF own THEN 1 ELSE 0)
        /\ \A i \in 1..Len(out) :
              out[i] = SubSeq(list, (i - 1) * max_size + 1,
                              IF i = Len(out) THEN n ELSE i * max_size)

\* C24: after the full batches of batch_max_size settlements of an outcome
\* list, a remainder of r settlements (0 < r < batch_max_size) is a batch of
\* its own iff r >= batch_min_size or no batch of the type was emitted yet;
\* otherwise it is appended to the last emitted batch of the type and no
\* separate batch is emitted.
C24_Remainder ==
    coord.batch_max_size >= 1 =>
        /\ RemainderRule(coord.wins, "Payout")
        /\ RemainderRule(coord.losses, "Spend")

\* 25 Wins and 7 Losses with min 3 and max 12: Payout batches of 12 and 13
\* and one Spend batch of 7.
C24_Witness ==
    /\ coord.batch_min_size = 3 /\ coord.batch_max_size = 12
    /\ Len(coord.wins) = 25 /\ Len(coord.losses) = 7
    /\ Len(coord.outbox) = 3
    /\ coord.outbox[1].batch_type = "Payout" /\ Len(coord.outbox[1].settlements) = 12
    /\ coord.outbox[2].batch_type = "Payout" /\ Len(coord.outbox[2].settlements) = 13
    /\ coord.outbox[3].batch_type = "Spend" /\ Len(coord.outbox[3].settlements) = 7

\* The batches the coordinator holds or has sent and no worker has received.
BatchesInFlight ==
    Range(coord.outbox) \cup UNION {Range(chan[w]) : w \in Workers}

\* The outcome the settlements of a batch of this type must have.
OutcomeOf(batch_type) == IF batch_type = "Payout" THEN "Win" ELSE "Loss"

\* C25: every settlement in a Payout batch has outcome Win and every
\* settlement in a Spend batch has outcome Loss, in the cycle's batches and
\* in the worker channels; a fetched settlement with any other outcome is in
\* neither outcome list, hence in no batch and in no worker channel.
C25_Partition ==
    /\ \A b \in BatchesInFlight :
          /\ b.batch_type \in {"Payout", "Spend"}
          /\ \A i \in 1..Len(b.settlements) :
                b.settlements[i].outcome = OutcomeOf(b.batch_type)
    /\ \A i \in 1..Len(coord.fetched) :
          coord.fetched[i].outcome \notin {"Win", "Loss"} =>
              /\ coord.fetched[i] \notin Range(coord.wins) \cup Range(coord.losses)
              /\ \A b \in Range(coord.outbox) : coord.fetched[i] \notin Range(b.settlements)
    /\ Len(coord.wins) + Len(coord.losses) =
          Cardinality({i \in 1..Len(coord.fetched) :
                          coord.fetched[i].outcome \in {"Win", "Loss"}})

\* A cycle that fetched a Win, a Loss and a settlement with another outcome
\* has sent its Payout batch and its Spend batch, and nothing else.
C25_Witness ==
    /\ Len(coord.fetched) = 3
    /\ \E i \in 1..3 : coord.fetched[i].outcome \notin {"Win", "Loss"}
    /\ coord.outbox = << >>
    /\ Len(chan[1]) = 1 /\ chan[1][1].batch_type = "Payout"
    /\ Len(chan[2]) = 1 /\ chan[2][1].batch_type = "Spend"
    /\ Len(chan[1][1].settlements) = 1 /\ Len(chan[2][1].settlements) = 1

\* The number of batches dispatched since start-up, while no worker has
\* received one.
Dispatched == Len(chan[1]) + Len(chan[2])

\* C26: the k-th batch dispatched since start-up (k from 0) goes to worker
\* k mod N (the workers being numbered from 1 here), the batches of a cycle
\* in their order, Payout batches before Spend batches; so the channels'
\* lengths never differ by more than one.
C26_RoundRobin ==
    /\ [](/\ Len(chan[1]) - Len(chan[2]) \in {0, 1}
          /\ \A i \in 1..Len(coord.outbox), j \in 1..Len(coord.outbox) :
                (i < j /\ coord.outbox[i].batch_type = "Spend") =>
                    coord.outbox[j].batch_type = "Spend")
    /\ [][\A w \in Workers :
              Len(chan'[w]) > Len(chan[w]) =>
                  /\ w = (Dispatched % Cardinality(Workers)) + 1
                  /\ coord.outbox # << >>
                  /\ chan' = [chan EXCEPT ![w] = Append(@, Head(coord.outbox))]
                  /\ coord'.outbox = Tail(coord.outbox)
         ]_vars

\* Four batches were dispatched: the first and third to worker 1, the second
\* and fourth to worker 2, a cycle's Payout batch before its Spend batch.
C26_Witness ==
    /\ Len(chan[1]) = 2 /\ Len(chan[2]) = 2
    /\ chan[1][1].batch_type = "Payout" /\ chan[2][1].batch_type = "Spend"
    /\ chan[1][2].batch_type = "Payout" /\ chan[2][2].batch_type = "Payout"

(***************************************************************************)
(* Properties of the settlement worker: conflicts and failed submissions   *)
(***************************************************************************)
\* Worker w takes a step of its own (not the shutdown) from this place.
StepsFrom(w, pc) == wk[w].pc = pc /\ wk'[w] # wk[w] /\ stopped' = stopped

\* C27: when the SubmittedToSolana update is answered with a version
\* conflict the worker is done with the settlement: no on-chain submission,
\* no other update, and Ok returned to the batch loop.
C27_ConflictAbandons ==
    [][\A w \in Workers :
          (/\ StepsFrom(w, "submitted")
           /\ faults' = faults
           /\ svc.version # wk[w].game.version) =>
              /\ wk'[w].pc = "idle"
              /\ wk'[w].returned = "Ok"
              /\ svc' = svc
              /\ subs' = subs /\ issued' = issued /\ sent' = sent
      ]_vars

\* A worker returned Ok without a submission and without a completion
\* update: it abandoned the settlement after a conflict.
C27_Witness ==
    \E w \in Workers :
        /\ wk[w].pc = "idle"
        /\ wk[w].returned = "Ok"
        /\ svc.version >= 1
        /\ \A s \in sent : s.w # w
        /\ \A i \in issued : i[1] # w

C22_OpensAtThreshold ==
    /\ [](/\ cb.failure_count = cb.streak
          /\ cb.state = "Closed" => cb.streak < failure_threshold
          /\ cb.state = "Open" => cb.streak >= failure_threshold)
    /\ [][cb'.calls = cb.calls + 1 =>
            /\ cb.state = "Closed" =>
                 (cb'.state = "Open" <=>
                    cb'.last = "err" /\ cb'.streak = failure_threshold)
            /\ cb'.last = "ok" => cb'.failure_count = 0 /\ cb'.state = "Closed"
            /\ cb'.last = "err" => cb'.streak = cb.streak + 1 /\ cb'.state # "HalfOpen"]_vars

\* A success ended a run of failure_threshold - 1 failures, and a later run of
\* failure_threshold failures has just opened the breaker.
C22_Witness ==
    /\ cb.cleared = failure_threshold - 1
    /\ cb.state = "Open"
    /\ cb.streak = failure_threshold
    /\ cb.last = "err"
    /\ cb.waits = 0

\* C21: every bet of a chunk whose on-chain submission succeeded is
\* eventually recorded in the queue store as Completed together with its
\* result, even if a status report of the bet worker fails.
C21_EventuallyCompleted ==
    \A id \in 1..(SmallPopulation + 1) :
        (id \in bw.executed) ~>
            (Hash(id).status = Completed /\ Hash(id).won # "nil")

\* C37: after ClaimPending claims a bet at instant t, the bet's score in the
\* processing index is t, whatever its score in claimable was.
C37_ProcessingScoreIsClaimInstant ==
    [][batches' # batches =>
          \A m \in ZMembers(claimable) \ ZMembers(claimable') :
              m \in DOMAIN processing' /\ processing'[m] = now
      ]_vars

\* C40: UpdateStatus, with any target status (FailedRetryable included),
\* applied to a bet id that has no stored record creates no record for it and
\* leaves claimable and processing as they were.
C40_NoRecordFromUpdate ==
    [][/\ \A id \in BetIds, status \in BetStatus :
            (id \notin DOMAIN bets /\ UpdateStatus(id, status)) =>
                /\ bets' = bets
                /\ claimable' = claimable
                /\ processing' = processing
       /\ \A c \in Callers :
            (calls[c].id \notin DOMAIN bets /\ FailScript(c)) =>
                /\ bets' = bets
                /\ claimable' = claimable
                /\ processing' = processing
      ]_vars

\* C34: every failed chunk submission is recorded as a failure on the bet
\* worker's circuit breaker: when process_batch returns after a failed chunk,
\* the breaker has counted a failure and stamped its instant.
C34_FailureRecordedOnBreaker ==
    [][(bw.pc \in {"failed", "failing"} /\ bw'.pc = "tick") =>
          cb'.failure_count >= 1 /\ cb'.last_failure_time # None]_vars

\* C35: the bets a claim returned are split, in their order, into consecutive
\* chunks of at most max_bets_per_tx; only the chunk at the head is submitted;
\* when it fails, the bets reported FailedRetryable are exactly its bets, the
\* later chunks are dropped unsubmitted, and their bets are still Batched and
\* in processing when process_batch returns.
C35_ChunksInOrder ==
    [][/\ (bw.pc = "tick" /\ bw'.pc = "execute") =>
            /\ Concat(bw'.chunks) = ret'.ids
            /\ \A i \in 1..Len(bw'.chunks) :
                  /\ Len(bw'.chunks[i]) \in 1..Max(bw.max_per_tx, 1)
                  /\ i < Len(bw'.chunks) => Len(bw'.chunks[i]) = Max(bw.max_per_tx, 1)
       /\ bw'.executed # bw.executed =>
            bw.pc = "execute" /\ bw'.executed \ bw.executed = Range(Head(bw.chunks))
       /\ (bw.pc = "execute" /\ bw'.pc = "failed") => bw'.chunks = bw.chunks
       /\ (bw.pc = "failed" /\ bw'.pc = "failing") => bw'.report = Head(bw.chunks)
       /\ (bw.pc = "failing" /\ calls'["w1"].pc = "fail_script" /\ calls["w1"].pc = "idle") =>
            calls'["w1"].id \in Range(Head(bw.chunks)) \ Range(Concat(Tail(bw.chunks)))
       /\ (bw.pc \in {"failed", "failing"} /\ bw'.pc # bw.pc) =>
            /\ bw'.pc \in {"failing", "tick"}
            /\ bw'.executed = bw.executed
            /\ \A id \in Range(Concat(Tail(bw.chunks))) :
                  bets'[id].status = Batched /\ id \in DOMAIN processing'
       /\ (bw.pc \in {"failed", "failing"} /\ bw'.pc = "tick") => bw'.chunks = << >>
      ]_vars

\* With one bet per transaction: the first chunk was completed, the second
\* failed and its bet was rescheduled, the third was never submitted and its
\* bet is still Batched in processing; the worker is back at its ticker.
C35_Witness ==
    /\ bw.pc = "tick" /\ bw.max_per_tx = 1 /\ bw.faults = 0
    /\ bw.executed = {1}
    /\ DOMAIN bets = 1..3
    /\ bets[1].status = Completed
    /\ bets[2].status = FailedRetryable /\ bets[2].retry_count = 1
    /\ bets[3].status = Batched /\ 3 \in DOMAIN processing

\* C31: a call that finds the breaker Open tests the time since the last
\* failure; while no more than reset_timeout has elapsed it returns
\* CircuitOpen without running the operation and without changing the state,
\* the counter or the last-failure instant; once more has elapsed it stores
\* HalfOpen and runs the operation.
C31_OpenRejectsUntilTimeout ==
    /\ [](\A t \in DOMAIN cb.task :
             cb.task[t].pc = "open" => cb.state = "Open" /\ cb.last_failure_time # None)
    /\ [][\A t \in DOMAIN cb.task :
            LET me == cb.task[t]
                after == cb'.task[t]
                elapsed == cb.clock - cb.last_failure_time
            IN  /\ (me.pc = "idle" /\ after.pc # "idle") =>
                      (after.pc = "open" <=> cb.state = "Open")
                /\ (me.pc = "open" /\ after # me) =>
                      IF elapsed <= reset_timeout_seconds
                      THEN /\ after.pc = "idle" /\ after.returned = "rejected"
                           /\ cb'.state = cb.state
                           /\ cb'.failure_count = cb.failure_count
                           /\ cb'.last_failure_time = cb.last_failure_time
                      ELSE after.pc = "to_half"
                /\ (me.pc = "to_half" /\ after # me) =>
                      cb'.state = "HalfOpen" /\ after.pc = "operate"
                /\ after.returned = "rejected" => after.pc \in {"idle"}
         ]_vars

\* One call was rejected by the Open breaker; after the timeout another call
\* has moved the breaker to HalfOpen and is running its operation.
C31_Witness ==
    \E t, u \in DOMAIN cb.task :
        /\ cb.task[t].returned = "rejected" /\ cb.task[t].pc = "idle"
        /\ cb.task[u].pc = "operate" /\ cb.task[u].admitted = "HalfOpen"
        /\ cb.state = "HalfOpen"

\* C32: a call whose operation ended while the breaker was HalfOpen leaves
\* the breaker Closed with the counter reset when the operation succeeded, and
\* Open with last_failure refreshed when it failed, also when calls on the
\* shared breaker overlapped before.
C32_HalfOpenOutcome ==
    [][\A t \in DOMAIN cb.task :
          LET me == cb.task[t]
              after == cb'.task[t]
          IN  /\ (cb.state = "HalfOpen" /\ me.pc = "operate" /\ after.pc = "succ_state") =>
                    cb'.failure_count = 0
              /\ (me.result_in = "HalfOpen" /\ me.pc = "succ_state" /\ after.pc = "idle") =>
                    cb'.state # "HalfOpen"
              /\ (me.result_in = "HalfOpen" /\ me.pc = "fail_last" /\ after # me) =>
                    cb'.last_failure_time = cb.clock
              /\ (me.result_in = "HalfOpen" /\ me.pc \in {"fail_last", "fail_state"}
                     /\ after.pc = "idle") =>
                    cb'.state = "Open"
      ]_vars

\* C33: while a trial admitted in HalfOpen is running its operation, no other
\* call on the breaker is admitted to run its operation.
C33_OneTrial ==
    [][\A t \in DOMAIN cb.task :
          (/\ cb.state = "HalfOpen"
           /\ \E u \in DOMAIN cb.task \ {t} :
                 cb.task[u].pc = "operate" /\ cb.task[u].admitted = "HalfOpen"
           /\ cb.task[t].pc = "idle" /\ cb'.task[t].pc # "idle") =>
              cb'.task[t].pc # "operate"
      ]_vars

\* C38: calls on one shared breaker never deadlock: whenever a call is in
\* flight, some call in flight can take its next step (the lock it waits for
\* is not held by a call that waits in turn).
C38_NoDeadlock ==
    (\E t \in DOMAIN cb.task : cb.task[t].pc # "idle") =>
        \E u \in DOMAIN cb.task :
            LET others == DOMAIN cb.task \ {u}
            IN  \/ cb.task[u].pc = "operate"
                \/ /\ cb.task[u].pc \in {"open", "fail_last"}
                   /\ \A v \in others : cb.task[v].pc # "fail_state"
                \/ /\ cb.task[u].pc \in {"to_half", "succ_state", "fail_state"}
                   /\ \A v \in others : cb.task[v].pc # "open"

\* C36: a call of the settlements client makes at most 3 attempts; it sends
\* another attempt only after a transport failure, a 5xx response or an
\* answer that could not be read, after waits of 1000 ms and then 2000 ms; a
\* 4xx response ends the call at that attempt; and update_settlement_status
\* returns a 409 as a conflict at the attempt that saw it.
C36_RetryPolicy ==
    [][(rq.op # "none" /\ rq.returned = "none" /\ rq' # rq) =>
          LET resp == rq'.last
              retried == rq'.returned = "none"
          IN  /\ rq'.attempt <= MAX_RETRIES
              /\ retried =>
                    /\ resp.status = 0 \/ resp.status \in 500..599 \/ resp.status \in 200..299
                    /\ rq'.waits[Len(rq'.waits)] = (IF rq.attempt = 1 THEN 1000 ELSE 2000)
              /\ resp.status \in 400..499 => ~retried
              /\ (rq.op = "update" /\ resp.status = 409) => rq'.returned = "conflict"
      ]_vars

\* C39: a settlement that a worker's update moved to SubmittedToSolana
\* eventually has another status, while the workers stay alive and all but
\* MaxFaults requests are answered.
C39_LeavesSubmitted ==
    (svc.status = SvcSubmittedToSolana) ~> (svc.status # SvcSubmittedToSolana)

====
